---- MODULE Spec2Model ----
(***************************************************************************)
(* Model of the H.I.V.E. agent protocol engine of @open-hive/core:         *)
(* canonical serialization and Ed25519 signing (utils/agent-signature.ts), *)
(* the message factory and validator (utils/agent-message.ts), the task    *)
(* dispatcher Agent.process (agent.ts), the in-memory registry and the     *)
(* POST /tasks route of the agent server (utils/agent-server.ts).          *)
(*                                                                         *)
(* JSON values are tagged records; a JavaScript object is a sequence of    *)
(* <<key, value>> pairs in insertion order.  An Ed25519 signature is the   *)
(* pair (signing key, signed bytes); a public key verifies exactly the     *)
(* signatures made with its private key over the same bytes.               *)
(***************************************************************************)
EXTENDS Integers, Sequences, FiniteSets, TLC

VARIABLES
    capabilityHandlers, \* Agent.capabilityHandlers : capability id -> handler
    calls,              \* number of handler invocations so far (side-effect counter)
    executed,           \* envelopes (with the key used) whose handler has run
    db,                 \* InMemoryRegistry.db of the active registry : id -> public key
    pending,            \* process calls suspended at await handler(params)
    issued,             \* the task ids generateTaskId has returned so far
    last                \* the last operation: its inputs and its outcome

vars == <<capabilityHandlers, calls, executed, db, pending, issued, last>>

(***************************************************************************)
(* Bounds                                                                  *)
(***************************************************************************)
MaxCalls == 2
MaxSeen == 1
MaxPending == 2
MaxGenerated == 3

(***************************************************************************)
(* JSON values                                                             *)
(***************************************************************************)
Undef == [t |-> "undef"]
Str(s) == [t |-> "str", s |-> s]
Num(n) == [t |-> "num", n |-> n]
Bool(b) == [t |-> "bool", b |-> b]
Obj(f) == [t |-> "obj", f |-> f]
Sig(k, m) == [t |-> "sig", k |-> k, m |-> m]
Arr(a) == [t |-> "arr", a |-> a]
Null == [t |-> "null"]
NaN == [t |-> "nan"]

IsObj(v) == v.t = "obj"
IsStr(v) == v.t = "str"

Keys(o) == {o.f[i][1] : i \in 1..Len(o.f)}

\* o[k] : the value of property k, undefined when o has no such property
Get(o, k) ==
    IF ~IsObj(o) THEN Undef
    ELSE LET hit == SelectSeq(o.f, LAMBDA p : p[1] = k)
         IN IF hit = <<>> THEN Undef ELSE hit[1][2]

\* { ...rest } = o without property k
Del(o, k) == Obj(SelectSeq(o.f, LAMBDA p : p[1] # k))

\* o[k] = v : an existing property keeps its position, a new one is appended;
\* a property set to undefined is not serialized and is modelled as absent
Put(o, k, v) ==
    IF v = Undef THEN Del(o, k)
    ELSE IF k \in Keys(o)
         THEN Obj([i \in 1..Len(o.f) |-> IF o.f[i][1] = k THEN <<k, v>> ELSE o.f[i]])
         ELSE Obj(Append(o.f, <<k, v>>))

\* JavaScript truthiness of a value
Truthy(v) ==
    CASE v.t \in {"undef", "null", "nan"} -> FALSE
      [] v.t = "str" -> v.s # ""
      [] v.t = "num" -> v.n # 0
      [] v.t = "bool" -> v.b
      [] OTHER -> TRUE

\* typeof v
TypeOf(v) ==
    CASE v.t = "undef" -> "undefined"
      [] v.t \in {"str", "sig"} -> "string"
      [] v.t \in {"num", "nan"} -> "number"
      [] v.t = "bool" -> "boolean"
      [] OTHER -> "object"

\* Array.isArray(v)
IsArray(v) == v.t = "arr"

\* `${v}` in a template string
Template(v) ==
    CASE v.t = "undef" -> "undefined"
      [] v.t = "str" -> v.s
      [] v.t = "num" -> ToString(v.n)
      [] v.t = "bool" -> (IF v.b THEN "true" ELSE "false")
      [] OTHER -> "[object Object]"

(***************************************************************************)
(* Canonical serialization: json-stable-stringify                          *)
(***************************************************************************)
\* the property names that occur in the scenario, in lexicographic order
KeyOrder ==
    <<"agentId", "capabilities", "capability", "code", "data",
      "deadline", "description", "endpoint", "env", "error",
      "estimated_completion", "extra", "from", "hops", "host", "id", "input",
      "keys", "logLevel", "message", "name", "output", "params",
      "port", "privateKey", "progress", "publicKey", "reason", "result",
      "retry", "sig", "status", "task_id", "text", "to", "trace",
      "type", "version">>

\* a serialization that passes the sorted top-level keys as the allow list of
\* JSON.stringify: the members of nested objects are dropped
stringifyAllowList(v) ==
    IF v.t = "obj"
    THEN LET present == {v.f[i][1] : i \in 1..Len(v.f)}
             ks == SelectSeq(KeyOrder, LAMBDA k : k \in present)
             member(k) ==
                LET x == Get(v, k)
                IN ToString(k) \o ":"
                   \o (CASE x.t = "str" -> ToString(x.s)
                         [] x.t = "num" -> ToString(x.n)
                         [] x.t = "bool" -> (IF x.b THEN "true" ELSE "false")
                         [] x.t = "obj" -> "{}"
                         [] OTHER -> "null")
             join[i \in 0..Len(ks)] ==
                IF i = 0 THEN ""
                ELSE join[i - 1] \o (IF i = 1 THEN "" ELSE ",") \o member(ks[i])
         IN "{" \o join[Len(ks)] \o "}"
    ELSE "null"

\* JSON.stringify: the members in insertion order
RECURSIVE stringifyInsertionOrder(_)
stringifyInsertionOrder(v) ==
    CASE v.t = "str" -> ToString(v.s)
      [] v.t = "num" -> ToString(v.n)
      [] v.t = "bool" -> (IF v.b THEN "true" ELSE "false")
      [] v.t = "obj" ->
            LET join[i \in 0..Len(v.f)] ==
                    IF i = 0 THEN ""
                    ELSE join[i - 1] \o (IF i = 1 THEN "" ELSE ",")
                         \o ToString(v.f[i][1]) \o ":" \o stringifyInsertionOrder(v.f[i][2])
            IN "{" \o join[Len(v.f)] \o "}"
      [] v.t = "sig" -> ToString(v.k \o ":" \o v.m)
      [] OTHER -> "null"

RECURSIVE JoinMembers(_, _, _)
RECURSIVE stringify(_)

\* the members of o for the keys ks (already sorted), comma separated
JoinMembers(o, ks, first) ==
    IF ks = <<>> THEN ""
    ELSE (IF first THEN "" ELSE ",")
         \o ToString(Head(ks)) \o ":" \o stringify(Get(o, Head(ks)))
         \o JoinMembers(o, Tail(ks), FALSE)

stringify(v) ==
    CASE v.t = "str" -> ToString(v.s)
      [] v.t = "num" -> ToString(v.n)
      [] v.t = "bool" -> (IF v.b THEN "true" ELSE "false")
      [] v.t = "obj" ->
            LET ks == Keys(v)
            IN "{" \o JoinMembers(v, SelectSeq(KeyOrder, LAMBDA k : k \in ks), TRUE) \o "}"
      [] v.t = "sig" -> ToString(v.k \o ":" \o v.m)
      [] v.t = "arr" ->
            LET join[i \in 0..Len(v.a)] ==
                    IF i = 0 THEN ""
                    ELSE join[i - 1] \o (IF i = 1 THEN "" ELSE ",") \o stringify(v.a[i])
            IN "[" \o join[Len(v.a)] \o "]"
      [] OTHER -> "null"

(***************************************************************************)
(* Keys and Ed25519                                                        *)
(***************************************************************************)
PrivateKeys == {"skX", "skY", "skZ"}
PublicKeyOf(sk) ==
    CASE sk = "skX" -> "pkX" [] sk = "skY" -> "pkY" [] sk = "skZ" -> "pkZ"
PublicKeys == {PublicKeyOf(sk) : sk \in PrivateKeys}
MalformedKey == "not-a-pem"

\* AgentSignature.generateKeyPair
generateKeyPair == {[privateKey |-> sk, publicKey |-> PublicKeyOf(sk)] : sk \in PrivateKeys}

\* outcomes of an operation
Return(v) == [k |-> "return", v |-> v]
Throw(e) == [k |-> "throw", e |-> e]

\* crypto.sign(null, bytes, privateKey): the raw signature
cryptoSign(bytes, privateKey) ==
    IF privateKey \in PrivateKeys
    THEN Return([k |-> privateKey, m |-> bytes])
    ELSE Throw("DecoderError")             \* the key is not a PEM private key

\* signature.toString('base64')
toBase64(raw) == Sig(raw.k, raw.m)

\* Buffer.from(signature, 'base64'): the bytes of a string; a string that is
\* not the base64 text of a signature decodes to bytes that are no signature
fromBase64(signature) ==
    CASE signature.t = "sig" -> Return([k |-> signature.k, m |-> signature.m])
      [] signature.t = "str" -> Return([k |-> "none", m |-> ""])
      [] OTHER -> Throw("TypeError")

\* AgentSignature.sign
sign(message, privateKey) ==
    LET raw == cryptoSign(stringify(message), privateKey)
    IN IF raw.k = "throw" THEN Throw("PROCESSING_FAILED") ELSE Return(toBase64(raw.v))

\* crypto.verify(null, bytes, publicKey, signatureBytes)
cryptoVerify(bytes, publicKey, raw) ==
    IF publicKey \notin PublicKeys
    THEN Throw("DecoderError")             \* the key is not a PEM public key
    ELSE Return(/\ raw.k \in PrivateKeys
                /\ PublicKeyOf(raw.k) = publicKey
                /\ raw.m = bytes)

\* AgentSignature.verify
verify(message, signature, publicKey) ==
    LET raw == fromBase64(signature) IN
    IF raw.k = "throw" THEN Throw("PROCESSING_FAILED")
    ELSE LET isValid == cryptoVerify(stringify(message), publicKey, raw.v)
         IN IF isValid.k = "throw" THEN Throw("PROCESSING_FAILED") ELSE isValid

(***************************************************************************)
(* Message factory and signature check: AgentMessage                       *)
(***************************************************************************)
\* a createMessage that returns the envelope without attaching a signature
createMessageUnsigned(fromAgentId, toAgentId, type, data, privateKey) ==
    Return(Put(Put(Put(Put(Obj(<<>>), "from", fromAgentId), "to", toAgentId),
                   "type", Str(type)), "data", data))

\* AgentMessage.createMessage; the outcome of sign when it throws
createMessage(fromAgentId, toAgentId, type, data, privateKey) ==
    LET messageWithoutSig ==
            Put(Put(Put(Put(Obj(<<>>), "from", fromAgentId), "to", toAgentId),
                    "type", Str(type)), "data", data)
        sig == sign(messageWithoutSig, privateKey)
    IN IF sig.k = "throw" THEN sig ELSE Return(Put(messageWithoutSig, "sig", sig.v))

\* AgentMessage.createTaskRequest; generated is the value of generateTaskId()
createTaskRequest(fromAgentId, toAgentId, capability, params, privateKey, taskId, generated) ==
    LET data == Put(Put(Put(Obj(<<>>),
                    "task_id", IF Truthy(taskId) THEN taskId ELSE Str(generated)),
                    "capability", capability), "params", params)
    IN createMessage(fromAgentId, toAgentId, "task_request", data, privateKey)

\* AgentMessage.createTaskUpdate (without the optional message)
createTaskUpdate(fromAgentId, toAgentId, taskId, privateKey, progress) ==
    LET data == Put(Put(Put(Obj(<<>>), "task_id", taskId),
                    "status", Str("in_progress")), "progress", progress)
    IN createMessage(fromAgentId, toAgentId, "task_update", data, privateKey)

\* AgentMessage.createTaskResult
createTaskResult(fromAgentId, toAgentId, taskId, result, privateKey) ==
    LET data == Put(Put(Put(Obj(<<>>), "task_id", taskId),
                    "status", Str("completed")), "result", result)
    IN createMessage(fromAgentId, toAgentId, "task_result", data, privateKey)

\* AgentMessage.createTaskError (without the optional code)
createTaskError(fromAgentId, toAgentId, taskId, error, message, retry, privateKey) ==
    LET data == Put(Put(Put(Put(Obj(<<>>), "task_id", taskId), "error", error),
                    "message", message), "retry", retry)
    IN createMessage(fromAgentId, toAgentId, "task_error", data, privateKey)

\* a verifySignature that verifies the envelope as received, sig included
verifySignatureWhole(message, publicKey) ==
    verify(message, Get(message, "sig"), publicKey)

\* AgentMessage.verifySignature
verifySignature(message, publicKey) ==
    verify(Del(message, "sig"), Get(message, "sig"), publicKey)

(***************************************************************************)
(* Message validator: AgentMessage.validate                                *)
(***************************************************************************)
AgentMessageTypes ==
    {"task_request", "task_response", "task_update", "task_result", "task_error",
     "capability_query", "capability_response", "heartbeat", "agent_identity"}

IdPrefix == "hive:agentid:"

\* v.startsWith('hive:agentid:') for a string v
startsWithPrefix(v) ==
    /\ Len(v.s) >= Len(IdPrefix)
    /\ SubSeq(v.s, 1, Len(IdPrefix)) = IdPrefix

\* AgentMessage.validateTaskRequest
validateTaskRequest(data) ==
    IF ~Truthy(Get(data, "task_id")) THEN Throw("INVALID_MESSAGE_FORMAT")
    ELSE IF ~Truthy(Get(data, "capability")) THEN Throw("INVALID_MESSAGE_FORMAT")
    ELSE IF ~Truthy(Get(data, "params")) \/ TypeOf(Get(data, "params")) # "object"
    THEN Throw("INVALID_MESSAGE_FORMAT")
    ELSE Return(Undef)

\* AgentMessage.validateTaskResponse
validateTaskResponse(data) ==
    IF ~Truthy(Get(data, "task_id")) THEN Throw("INVALID_MESSAGE_FORMAT")
    ELSE IF \/ ~Truthy(Get(data, "status"))
            \/ Get(data, "status") \notin {Str("accepted"), Str("rejected")}
    THEN Throw("INVALID_MESSAGE_FORMAT")
    ELSE Return(Undef)

\* AgentMessage.validateTaskUpdate
validateTaskUpdate(data) ==
    LET progress == Get(data, "progress") IN
    IF ~Truthy(Get(data, "task_id")) THEN Throw("INVALID_MESSAGE_FORMAT")
    ELSE IF ~Truthy(Get(data, "status")) \/ Get(data, "status") # Str("in_progress")
    THEN Throw("INVALID_MESSAGE_FORMAT")
    ELSE IF /\ progress # Undef
            /\ \/ TypeOf(progress) # "number"
               \/ progress.t = "num" /\ progress.n < 0      \* NaN < 0 is false
               \/ progress.t = "num" /\ progress.n > 100    \* NaN > 100 is false
    THEN Throw("INVALID_MESSAGE_FORMAT")
    ELSE Return(Undef)

\* AgentMessage.validateTaskResult
validateTaskResult(data) ==
    IF ~Truthy(Get(data, "task_id")) THEN Throw("INVALID_MESSAGE_FORMAT")
    ELSE IF ~Truthy(Get(data, "status")) \/ Get(data, "status") # Str("completed")
    THEN Throw("INVALID_MESSAGE_FORMAT")
    ELSE IF ~Truthy(Get(data, "result")) \/ TypeOf(Get(data, "result")) # "object"
    THEN Throw("INVALID_MESSAGE_FORMAT")
    ELSE Return(Undef)

\* a validateTaskError that tests retry for truthiness
validateTaskErrorTruthyRetry(data) ==
    IF ~Truthy(Get(data, "task_id")) THEN Throw("INVALID_MESSAGE_FORMAT")
    ELSE IF ~Truthy(Get(data, "error")) THEN Throw("INVALID_MESSAGE_FORMAT")
    ELSE IF ~Truthy(Get(data, "message")) THEN Throw("INVALID_MESSAGE_FORMAT")
    ELSE IF ~Truthy(Get(data, "retry")) THEN Throw("INVALID_MESSAGE_FORMAT")
    ELSE Return(Undef)

\* AgentMessage.validateTaskError
validateTaskError(data) ==
    IF ~Truthy(Get(data, "task_id")) THEN Throw("INVALID_MESSAGE_FORMAT")
    ELSE IF ~Truthy(Get(data, "error")) THEN Throw("INVALID_MESSAGE_FORMAT")
    ELSE IF ~Truthy(Get(data, "message")) THEN Throw("INVALID_MESSAGE_FORMAT")
    ELSE IF Get(data, "retry") = Undef THEN Throw("INVALID_MESSAGE_FORMAT")
    ELSE Return(Undef)

\* AgentMessage.validateCapabilityQuery
validateCapabilityQuery(data) ==
    IF Get(data, "capabilities") # Undef /\ ~IsArray(Get(data, "capabilities"))
    THEN Throw("INVALID_MESSAGE_FORMAT")
    ELSE Return(Undef)

\* the checks of one entry of data.capabilities
validateCapabilityEntry(capability) ==
    IF capability \in {Undef, Null} THEN Throw("TypeError")   \* capability.id of null
    ELSE IF ~Truthy(Get(capability, "id")) THEN Throw("INVALID_MESSAGE_FORMAT")
    ELSE IF \/ ~Truthy(Get(capability, "input"))
            \/ TypeOf(Get(capability, "input")) # "object"
    THEN Throw("INVALID_MESSAGE_FORMAT")
    ELSE IF \/ ~Truthy(Get(capability, "output"))
            \/ TypeOf(Get(capability, "output")) # "object"
    THEN Throw("INVALID_MESSAGE_FORMAT")
    ELSE Return(Undef)

\* AgentMessage.validateCapabilityResponse: the first entry that fails throws
validateCapabilityResponse(data) ==
    LET capabilities == Get(data, "capabilities") IN
    IF ~Truthy(capabilities) \/ ~IsArray(capabilities) THEN Throw("INVALID_MESSAGE_FORMAT")
    ELSE IF Len(capabilities.a) = 0 THEN Throw("INVALID_MESSAGE_FORMAT")
    ELSE LET bad == {i \in 1..Len(capabilities.a) :
                        validateCapabilityEntry(capabilities.a[i]).k = "throw"}
         IN IF bad = {} THEN Return(Undef)
            ELSE validateCapabilityEntry(
                    capabilities.a[CHOOSE i \in bad : \A j \in bad : i <= j])

\* AgentMessage.validate
validate(message) ==
    LET from == Get(message, "from")
        to == Get(message, "to")
        type == Get(message, "type")
        data == Get(message, "data")
    IN IF ~Truthy(message) THEN Throw("INVALID_MESSAGE_FORMAT")
       ELSE IF ~Truthy(from) THEN Throw("INVALID_MESSAGE_FORMAT")
       ELSE IF ~Truthy(to) THEN Throw("INVALID_MESSAGE_FORMAT")
       ELSE IF ~Truthy(type) THEN Throw("INVALID_MESSAGE_FORMAT")
       ELSE IF ~Truthy(data) THEN Throw("INVALID_MESSAGE_FORMAT")
       ELSE IF ~IsStr(from) THEN Throw("TypeError")     \* from.startsWith is not a function
       ELSE IF ~startsWithPrefix(from) THEN Throw("INVALID_MESSAGE_FORMAT")
       ELSE IF ~IsStr(to) THEN Throw("TypeError")       \* to.startsWith is not a function
       ELSE IF ~startsWithPrefix(to) THEN Throw("INVALID_MESSAGE_FORMAT")
       ELSE IF ~IsStr(type) \/ type.s \notin AgentMessageTypes
       THEN Throw("INVALID_MESSAGE_FORMAT")
       ELSE CASE type.s = "task_request" -> validateTaskRequest(data)
              [] type.s = "task_response" -> validateTaskResponse(data)
              [] type.s = "task_update" -> validateTaskUpdate(data)
              [] type.s = "task_result" -> validateTaskResult(data)
              [] type.s = "task_error" -> validateTaskError(data)
              [] type.s = "capability_query" -> validateCapabilityQuery(data)
              [] type.s = "capability_response" -> validateCapabilityResponse(data)
              [] OTHER -> Return(Undef)

(***************************************************************************)
(* The agents of the scenario                                              *)
(***************************************************************************)
AgentX == "hive:agentid:x"      \* the peer, holder of skX
AgentY == "hive:agentid:y"      \* this agent, holder of skY
AgentW == "hive:agentid:w"      \* some other agent
NotAnId == "agent-x"            \* a string that is not an agent identifier

\* AgentConfig of this agent: id, keys and capability descriptors
config ==
    [id |-> AgentY,
     keys |-> [privateKey |-> "skY", publicKey |-> "pkY"],
     capabilities |-> {"echo", "sum"}]

\* a hasCapability that finds every id among the descriptors
hasCapabilityAny(id) == id \in STRING

\* AgentConfig.hasCapability
hasCapability(id) == id \in config.capabilities

\* the capability handlers an application registers: one returns its
\* params unchanged, one throws an Error
HandlerKinds == {"echo", "fail"}

\* the registrations an application attempts: (capability id, handler)
Registrations ==
    {<<"echo", "echo">>, <<"echo", "fail">>, <<"sum", "echo">>, <<"nope", "echo">>}

ParamsHi == Obj(<< <<"text", Str("hi")>> >>)
ParamsYo == Obj(<< <<"text", Str("yo")>> >>)

(***************************************************************************)
(* Inbound envelopes: built by the factory, then possibly altered          *)
(***************************************************************************)
RequestEchoX ==
    createTaskRequest(Str(AgentX), Str(AgentY), Str("echo"), ParamsHi, "skX", Str("t1"), "uuid-1").v
UpdateX ==
    createTaskUpdate(Str(AgentX), Str(AgentY), Str("t1"), "skX", Num(50)).v

\* further envelopes: an unregistered capability, a forger's key, another
\* addressee, a sender that is no identifier, no params, a generated task id,
\* an empty task id
OtherRequests ==
    {createTaskRequest(Str(AgentX), Str(AgentY), Str("nope"), ParamsHi, "skX", Str("t1"), "uuid-1").v,
     createTaskRequest(Str(AgentX), Str(AgentY), Str("echo"), ParamsHi, "skZ", Str("t1"), "uuid-1").v,
     createTaskRequest(Str(AgentX), Str(AgentW), Str("echo"), ParamsHi, "skX", Str("t1"), "uuid-1").v,
     createTaskRequest(Str(NotAnId), Str(AgentY), Str("echo"), ParamsHi, "skX", Str("t1"), "uuid-1").v,
     createTaskRequest(Str(AgentX), Str(AgentY), Str("echo"), Undef, "skX", Str("t1"), "uuid-1").v,
     createTaskRequest(Str(AgentX), Str(AgentY), Str("echo"), ParamsHi, "skX", Undef, "uuid-1").v,
     createMessage(Str(AgentX), Str(AgentY), "task_request",
                   Obj(<< <<"task_id", Str("")>>, <<"capability", Str("echo")>>,
                          <<"params", ParamsHi>> >>), "skX").v}

FactoryMessages == {RequestEchoX, UpdateX} \cup OtherRequests

\* the alterations of an envelope after it was signed
Tamper(m) ==
    {Put(m, "sig", Str("AAAA")),
     Del(m, "sig"),
     Del(m, "data"),
     Put(m, "data", Put(Get(m, "data"), "params", ParamsYo)),
     Put(m, "data", Del(Get(m, "data"), "task_id")),
     Put(m, "type", Str("task_result")),
     Put(m, "to", Str(AgentW))}

Messages ==
    FactoryMessages \cup Tamper(RequestEchoX) \cup Tamper(UpdateX)
    \cup {Put(m, "sig", Str("AAAA")) : m \in OtherRequests}

\* the calls of process: every envelope with the key of the peer and with
\* the forger's key, and some with a key that is no PEM public key
ProcessInputs ==
    (Messages \X {"pkX", "pkZ"})
    \cup ({RequestEchoX, UpdateX, Del(RequestEchoX, "sig"), Del(RequestEchoX, "data")}
          \X {MalformedKey})

(***************************************************************************)
(* Agent                                                                   *)
(***************************************************************************)
\* an error value that does not carry the task id of the request
TaskErrorUnknownId(task_id, error, message) ==
    Obj(<< <<"task_id", Str("unknown")>>, <<"error", Str(error)>>,
           <<"message", Str(message)>>, <<"retry", Bool(FALSE)>> >>)

\* an error value that leaves the decision to retry to the caller
TaskErrorRetryable(task_id, error, message) ==
    Obj(<< <<"task_id", task_id>>, <<"error", Str(error)>>,
           <<"message", Str(message)>>, <<"retry", Bool(error = "PROCESSING_FAILED")>> >>)

\* the task_error-shaped value returned by process
TaskError(task_id, error, message) ==
    Obj(<< <<"task_id", task_id>>, <<"error", Str(error)>>,
           <<"message", Str(message)>>, <<"retry", Bool(FALSE)>> >>)

\* the value a handler of kind h produces for params
RunHandler(h, params) ==
    IF h = "echo" THEN Return(params) ELSE Throw("boom")

\* a verifyMessage whose result is always truthy (a promise that is not awaited)
verifyMessageTruthy(message, publicKey) == Return(TRUE)

\* AgentIdentity.verifyMessage
verifyMessage(message, publicKey) == verifySignature(message, publicKey)

\* Agent.process: out is the value returned or the error it rejects with,
\* invoked tells whether the handler was called
process(handlers, message, senderPublicKey) ==
    LET data == Get(message, "data") IN
    IF data = Undef                             \* message.data.task_id of undefined
    THEN [out |-> Throw("TypeError"), invoked |-> FALSE]
    ELSE
    LET task_id == IF Truthy(Get(data, "task_id")) THEN Get(data, "task_id") ELSE Str("unknown")
        ok == verifyMessage(message, senderPublicKey)
        type == Get(message, "type")
        capability == Get(data, "capability")
        params == Get(data, "params")
    IN IF ok.k = "throw" THEN [out |-> ok, invoked |-> FALSE]
       ELSE IF ~ok.v
       THEN [out |-> Return(TaskError(task_id, "INVALID_SIGNATURE",
                        "Message signature verification failed")),
             invoked |-> FALSE]
       ELSE IF type # Str("task_request")
       THEN [out |-> Return(TaskError(task_id, "INVALID_MESSAGE_FORMAT",
                        "Invalid message type: " \o Template(type) \o ". Expected 'task_request'.")),
             invoked |-> FALSE]
       ELSE IF ~(capability.t = "str" /\ capability.s \in DOMAIN handlers)
       THEN [out |-> Return(TaskError(task_id, "CAPABILITY_NOT_FOUND",
                        "Capability '" \o Template(capability) \o "' not found or no handler registered.")),
             invoked |-> FALSE]
       ELSE LET result == RunHandler(handlers[capability.s], params)
            IN [out |-> IF result.k = "throw"
                        THEN Return(TaskError(task_id, "PROCESSING_FAILED", result.e))
                        ELSE Return(Put(Put(Put(Obj(<<>>), "task_id", task_id),
                                        "status", Str("completed")), "result", result.v)),
                invoked |-> TRUE]

None == [op |-> "none", before |-> 0]

Init ==
    /\ capabilityHandlers = <<>>
    /\ calls = 0
    /\ executed = {}
    /\ db = <<>>
    /\ pending = <<>>
    /\ issued = {}
    /\ last = None

\* a capability that stores the handler without consulting the configuration
CapabilityUnchecked(id, h) ==
    /\ capabilityHandlers' =
            [c \in DOMAIN capabilityHandlers \cup {id} |->
                IF c = id THEN h ELSE capabilityHandlers[c]]
    /\ last' = [op |-> "capability", id |-> id, before |-> calls,
                 out |-> Return(Undef)]
    /\ UNCHANGED <<calls, executed, db, pending, issued>>

\* Agent.capability(id, handler)
Capability(id, h) ==
    /\ IF ~hasCapability(id)
       THEN /\ last' = [op |-> "capability", id |-> id, before |-> calls,
                         out |-> Throw("CONFIG_ERROR")]
            /\ UNCHANGED capabilityHandlers
       ELSE /\ capabilityHandlers' =
                    [c \in DOMAIN capabilityHandlers \cup {id} |->
                        IF c = id THEN h ELSE capabilityHandlers[c]]
            /\ last' = [op |-> "capability", id |-> id, before |-> calls,
                         out |-> Return(Undef)]
    /\ UNCHANGED <<calls, executed, db, pending, issued>>

\* a process that remembers the envelopes it executed and rejects a repeat
ProcessOnce(message, senderPublicKey) ==
    LET r == process(capabilityHandlers, message, senderPublicKey)
        seen == <<message, senderPublicKey>> \in executed
        fresh == r.invoked /\ ~seen
    IN
    /\ fresh => calls < MaxCalls
    /\ calls' = IF fresh THEN calls + 1 ELSE calls
    /\ executed' = IF fresh /\ Cardinality(executed) < MaxSeen
                   THEN executed \cup {<<message, senderPublicKey>>}
                   ELSE executed
    /\ last' = [op |-> "process", msg |-> message, key |-> senderPublicKey,
                replay |-> seen, before |-> calls,
                out |-> IF seen
                        THEN Return(TaskError(Str("unknown"), "INVALID_MESSAGE_FORMAT", "replayed"))
                        ELSE r.out]
    /\ UNCHANGED <<capabilityHandlers, db, pending, issued>>

\* Agent.process(message, senderPublicKey), with the handler it awaits
Process(message, senderPublicKey) ==
    LET r == process(capabilityHandlers, message, senderPublicKey) IN
    /\ r.invoked => calls < MaxCalls
    /\ calls' = IF r.invoked THEN calls + 1 ELSE calls
    /\ executed' = IF r.invoked /\ Cardinality(executed) < MaxSeen
                   THEN executed \cup {<<message, senderPublicKey>>}
                   ELSE executed
    /\ last' = [op |-> "process", msg |-> message, key |-> senderPublicKey,
                replay |-> <<message, senderPublicKey>> \in executed,
                before |-> calls, out |-> r.out]
    /\ UNCHANGED <<capabilityHandlers, db, pending, issued>>

Next ==
    \/ \E r \in Registrations : Capability(r[1], r[2])
    \/ \E i \in ProcessInputs : Process(i[1], i[2])

Spec == Init /\ [][Next]_vars

(***************************************************************************)
(* Properties of the task dispatcher                                       *)
(***************************************************************************)
\* the signature of envelope m is an Ed25519 signature of the canonical
\* form of m without sig, made with the private key of publicKey
SigValid(m, publicKey) ==
    LET s == Get(m, "sig")
    IN /\ s.t = "sig"
       /\ PublicKeyOf(s.k) = publicKey
       /\ s.m = stringify(Del(m, "sig"))

IsProcess == last.op = "process"
Returned == last.out.k = "return"
\* process returned a task_error-shaped value with this error
ReturnedError(e) == Returned /\ Get(last.out.v, "error") = Str(e)
ReturnedCompleted == Returned /\ Get(last.out.v, "status") = Str("completed")
LastType == Get(last.msg, "type")
LastCapability == Get(Get(last.msg, "data"), "capability")
LastHasHandler ==
    LastCapability.t = "str" /\ LastCapability.s \in DOMAIN capabilityHandlers

\* C1: process checks signature, then type, then handler, and reports the
\* first failure: an envelope whose signature does not verify under the
\* supplied key yields INVALID_SIGNATURE whatever its type and handler, and
\* a verified envelope of another type than task_request yields
\* INVALID_MESSAGE_FORMAT
C1_CheckOrder ==
    IsProcess =>
        /\ ~SigValid(last.msg, last.key) => ReturnedError("INVALID_SIGNATURE")
        /\ (SigValid(last.msg, last.key) /\ LastType # Str("task_request"))
                => ReturnedError("INVALID_MESSAGE_FORMAT")

\* C2: a handler is invoked only by a process call whose envelope verified
\* under the supplied key and whose type is task_request; a call that
\* returns INVALID_SIGNATURE leaves the invocation count unchanged
C2_HandlerOnlyWhenVerified ==
    /\ calls # last.before =>
            /\ IsProcess
            /\ SigValid(last.msg, last.key)
            /\ LastType = Str("task_request")
    /\ (IsProcess /\ ReturnedError("INVALID_SIGNATURE")) => calls = last.before

\* a bad signature on a task_request whose capability has a handler
C2_Witness ==
    /\ IsProcess
    /\ ReturnedError("INVALID_SIGNATURE")
    /\ LastType = Str("task_request")
    /\ LastHasHandler
    /\ calls = last.before
    /\ calls > 0

\* C3: process always completes by returning a value and never throws, for
\* every envelope and every sender key: also for an envelope without data,
\* a missing or undecodable sig, and a key that is no public key
C3_NeverThrows == IsProcess => Returned

\* C7: process invokes no handler for an envelope the validator rejects
C7_NoHandlerWhenInvalid ==
    (IsProcess /\ validate(last.msg).k = "throw") => calls = last.before

\* C8 as stated: after process has executed a signed task_request, a later
\* call with the identical envelope invokes no handler and yields an error
C8_ReplayRejected ==
    (IsProcess /\ last.replay) =>
        /\ calls = last.before
        /\ Returned /\ Get(last.out.v, "error") # Undef

\* C8 amended: process keeps no record of the envelopes it
\* executed, so an identical envelope with the same key passes the checks
\* again and its handler runs again
C8_ReplayExecutedAgain ==
    (IsProcess /\ last.replay) =>
        /\ calls = last.before + 1
        /\ ReturnedCompleted \/ ReturnedError("PROCESSING_FAILED")

\* the same envelope executed a second time
C8_Witness ==
    /\ IsProcess /\ last.replay
    /\ ReturnedCompleted
    /\ last.before > 0
    /\ calls = last.before + 1

(***************************************************************************)
(* Signing and verification on their own                                   *)
(***************************************************************************)
ParamsNested ==
    Obj(<< <<"text", Str("hi")>>, <<"extra", Obj(<< <<"code", Num(1)>> >>)>> >>)

Payloads == {ParamsHi, ParamsYo, ParamsNested, Del(RequestEchoX, "sig"), Del(UpdateX, "sig")}

Signatures ==
    {sign(p, sk).v : p \in Payloads, sk \in {"skX", "skZ"}}
    \cup {Str("AAAA"), Str(""), Undef}

VerifyKeys == {"pkX", "pkZ", MalformedKey, ""}

\* the envelopes the factory builds with the private key sk
FactoryBy(sk) ==
    {createTaskRequest(Str(f), Str(AgentY), Str("echo"), p, sk, tid, gen).v :
        f \in {AgentX, AgentW}, p \in {ParamsHi, ParamsNested},
        tid \in {Str("t1"), Undef}, gen \in {"uuid-1", "uuid-2"}}
    \cup {createTaskUpdate(Str(AgentX), Str(AgentY), Str("t1"), sk, Num(50)).v,
          createTaskResult(Str(AgentY), Str(AgentX), Str("t1"), ParamsHi, sk).v,
          createTaskError(Str(AgentY), Str(AgentX), Str("t1"), Str("PROCESSING_FAILED"),
                          Str("boom"), Bool(FALSE), sk).v}

\* envelope m with one of from, to, type, data given another value
Changes(m) ==
    LET data == Get(m, "data")
        params == Get(data, "params")
    IN ({Put(m, "from", Str(AgentY)),
        Put(m, "from", Str(NotAnId)),
        Put(m, "to", Str(AgentW)),
        Put(m, "type", Str("task_result")),
        Put(m, "type", Str("task_request")),
        Put(m, "data", ParamsYo),
        Put(m, "data", Put(data, "task_id", Str("t2"))),
        Put(m, "data", Put(data, "capability", Str("sum"))),
        Put(m, "data", Put(data, "progress", Num(150))),
        Put(m, "data", Put(data, "retry", Bool(TRUE))),
        Put(m, "data", Del(data, "task_id"))}
       \cup (IF IsObj(params)
             THEN {Put(m, "data", Put(data, "params", Put(params, "text", Str("yo")))),
                   Put(m, "data", Put(data, "params",
                        Put(params, "extra", Obj(<< <<"code", Num(2)>> >>))))}
             ELSE {}))
       \ {m}

\* verify(payload, signature, publicKey) on arbitrary arguments
Verify(payload, signature, publicKey) ==
    /\ last' = [op |-> "verify", payload |-> payload, sig |-> signature,
                key |-> publicKey, before |-> calls,
                out |-> verify(payload, signature, publicKey)]
    /\ UNCHANGED <<capabilityHandlers, calls, executed, db, pending, issued>>

\* sign(payload, sk) followed by verify with the public key of the pair
SignThenVerify(payload, keyPair) ==
    LET sig == sign(payload, keyPair.privateKey) IN
    /\ last' = [op |-> "roundtrip", payload |-> payload, sig |-> sig.v,
                key |-> keyPair.publicKey, before |-> calls,
                out |-> verify(payload, sig.v, keyPair.publicKey)]
    /\ UNCHANGED <<capabilityHandlers, calls, executed, db, pending, issued>>

\* verifySignature of an envelope as the factory returned it
VerifyCreated(message, publicKey) ==
    /\ last' = [op |-> "created", msg |-> message, key |-> publicKey, before |-> calls,
                out |-> verifySignature(message, publicKey)]
    /\ UNCHANGED <<capabilityHandlers, calls, executed, db, pending, issued>>

\* verifySignature of a factory envelope after one field was changed
VerifyChanged(original, message, publicKey) ==
    /\ last' = [op |-> "changed", orig |-> original, msg |-> message,
                key |-> publicKey, before |-> calls,
                out |-> verifySignature(message, publicKey)]
    /\ UNCHANGED <<capabilityHandlers, calls, executed, db, pending, issued>>

\* the members of v in the opposite insertion order, at every level
RECURSIVE ReverseAll(_)
ReverseAll(v) ==
    IF IsObj(v)
    THEN Obj([i \in 1..Len(v.f) |->
                <<v.f[Len(v.f) + 1 - i][1], ReverseAll(v.f[Len(v.f) + 1 - i][2])>>])
    ELSE v

\* the members of v in the opposite insertion order, the values untouched
ReverseTop(v) ==
    IF IsObj(v) THEN Obj([i \in 1..Len(v.f) |-> v.f[Len(v.f) + 1 - i]]) ELSE v

\* the members of v in their order, each value reversed at every level
ReverseNested(v) ==
    IF IsObj(v) THEN Obj([i \in 1..Len(v.f) |-> <<v.f[i][1], ReverseAll(v.f[i][2])>>]) ELSE v

\* objects with the keys and values of v inserted in another order
Reorderings(v) == {ReverseAll(v), ReverseTop(v), ReverseNested(v)} \ {v}

\* sign(P, sk) and sign(P', sk) for a reordering P' of P, then verify of P'
\* with the signature of P
SignReordered(payload, other, keyPair) ==
    /\ last' = [op |-> "reordered", payload |-> payload, other |-> other,
                key |-> keyPair.publicKey, before |-> calls,
                sig |-> sign(payload, keyPair.privateKey).v,
                sigOther |-> sign(other, keyPair.privateKey).v,
                out |-> verify(other, sign(payload, keyPair.privateKey).v, keyPair.publicKey)]
    /\ UNCHANGED <<capabilityHandlers, calls, executed, db, pending, issued>>

\* verifySignature of a factory envelope that carries one more field
VerifyExtended(original, field, publicKey) ==
    /\ last' = [op |-> "extended", orig |-> original,
                msg |-> Put(original, field, Str("abc")),
                key |-> publicKey, before |-> calls,
                out |-> verifySignature(Put(original, field, Str("abc")), publicKey)]
    /\ UNCHANGED <<capabilityHandlers, calls, executed, db, pending, issued>>

NextSig ==
    \/ \E p \in Payloads, sg \in Signatures, k \in VerifyKeys : Verify(p, sg, k)
    \/ \E p \in Payloads, kp \in generateKeyPair : SignThenVerify(p, kp)
    \/ \E sk \in PrivateKeys : \E m \in FactoryBy(sk) : VerifyCreated(m, PublicKeyOf(sk))
    \/ \E sk \in PrivateKeys : \E m \in FactoryBy(sk) : \E c \in Changes(m) :
            VerifyChanged(m, c, PublicKeyOf(sk))
    \/ \E p \in Payloads, kp \in generateKeyPair : \E q \in Reorderings(p) :
            SignReordered(p, q, kp)
    \/ \E sk \in PrivateKeys : \E m \in FactoryBy(sk) : \E f \in {"trace", "hops"} :
            VerifyExtended(m, f, PublicKeyOf(sk))

SpecSig == Init /\ [][NextSig]_vars

\* C4: verify returns false and never throws on a malformed key, an
\* undecodable signature or a signature that does not match the payload
C4_VerifyFalseNeverThrows ==
    last.op = "verify" =>
        /\ last.out.k = "return"
        /\ ~( /\ last.sig.t = "sig"
              /\ PublicKeyOf(last.sig.k) = last.key
              /\ last.sig.m = stringify(last.payload) ) => last.out = Return(FALSE)

\* C5: a factory envelope with one of from, to, type, data changed (at any
\* depth) does not verify with the original sig and the signer's public key
C5_TamperDetected ==
    last.op = "changed" => last.out = Return(FALSE)

\* a change two levels below data, answered with false
C5_Witness ==
    /\ last.op = "changed"
    /\ Get(last.msg, "from") = Get(last.orig, "from")
    /\ Get(last.msg, "to") = Get(last.orig, "to")
    /\ Get(last.msg, "type") = Get(last.orig, "type")
    /\ Get(Get(Get(Get(last.msg, "data"), "params"), "extra"), "code") = Num(2)
    /\ Get(Get(Get(Get(last.orig, "data"), "params"), "extra"), "code") = Num(1)
    /\ Get(last.msg, "sig") = Get(last.orig, "sig")
    /\ last.out = Return(FALSE)

\* C6: verify(payload, sign(payload, sk), pk) is true for every generated
\* key pair, and every envelope of the factory passes verifySignature with
\* the public key of the identity that built it
C6_RoundTrip ==
    /\ last.op = "roundtrip" => last.out = Return(TRUE)
    /\ last.op = "created" => last.out = Return(TRUE)

\* a task_request with a generated task id, built with skZ, verified with pkZ
C6_Witness ==
    /\ last.op = "created"
    /\ Get(last.msg, "type") = Str("task_request")
    /\ Get(Get(last.msg, "data"), "task_id") = Str("uuid-2")
    /\ last.key = "pkZ"
    /\ last.out = Return(TRUE)

(***************************************************************************)
(* Registry lookup and the POST /tasks route of the agent server           *)
(***************************************************************************)
\* a registry entry: the fields of IAgentRegistryEntry the lookup reads
Entry(id, publicKey) == [id |-> id, keys |-> [publicKey |-> publicKey]]

\* the public keys found in registry entries: the peer's key, another
\* agent's key, a text that is no PEM key, and an empty string
EntryKeys == {"pkX", "pkZ", MalformedKey, ""}

\* InMemoryRegistry.get
registryGet(d, agentId) ==
    IF agentId.t = "str" /\ agentId.s \in DOMAIN d
    THEN Return(d[agentId.s])
    ELSE Throw("AGENT_NOT_FOUND")

\* Agent.publicKey
publicKey(d, agentId) ==
    LET agent == registryGet(d, agentId)
    IN IF agent.k = "throw" THEN agent ELSE Return(Str(agent.v.keys.publicKey))

\* a request of an agent that is never registered
RequestEchoW ==
    createTaskRequest(Str(AgentW), Str(AgentY), Str("echo"), ParamsHi, "skZ", Str("t1"), "uuid-1").v

\* the bodies posted to /tasks
ServerMessages ==
    {RequestEchoX, UpdateX, RequestEchoW,
     Put(RequestEchoX, "sig", Str("AAAA")),
     Del(RequestEchoX, "sig"),
     Del(RequestEchoX, "data"),
     Del(RequestEchoX, "from"),
     createTaskRequest(Str(AgentX), Str(AgentY), Str("nope"), ParamsHi, "skX", Str("t1"), "uuid-1").v}

\* res.status(status).json(body)
Response(status, body) == [status |-> status, body |-> body]

\* the body { error: message } of an unsigned answer
ErrorBody(message) == Obj(<< <<"error", Str(message)>> >>)

\* the POST /tasks handler: the response, whether process was called, and
\* whether process called a capability handler
postTasks(d, handlers, message) ==
    LET from == Get(message, "from")
        senderPublicKey == publicKey(d, from)
    IN
    IF senderPublicKey.k = "throw"
    THEN [res |-> Response(500, ErrorBody(senderPublicKey.e)),
          processed |-> FALSE, invoked |-> FALSE]
    ELSE IF ~Truthy(senderPublicKey.v)
    THEN [res |-> Response(401, ErrorBody("Sender public key not found. Peer not configured.")),
          processed |-> FALSE, invoked |-> FALSE]
    ELSE
    LET r == process(handlers, message, senderPublicKey.v.s)
        responseData == r.out
    IN
    IF responseData.k = "throw"
    THEN [res |-> Response(500, ErrorBody(responseData.e)),
          processed |-> TRUE, invoked |-> r.invoked]
    ELSE
    LET responseMessage ==
            IF "error" \in Keys(responseData.v)
            THEN createTaskError(Str(config.id), from, Get(responseData.v, "task_id"),
                                 Get(responseData.v, "error"), Get(responseData.v, "message"),
                                 Get(responseData.v, "retry"), config.keys.privateKey)
            ELSE createTaskResult(Str(config.id), from, Get(responseData.v, "task_id"),
                                  Get(responseData.v, "result"), config.keys.privateKey)
        status == IF "error" \in Keys(responseData.v) THEN 500 ELSE 200
    IN
    IF responseMessage.k = "throw"
    THEN [res |-> Response(500, ErrorBody(responseMessage.e)),
          processed |-> TRUE, invoked |-> r.invoked]
    ELSE [res |-> Response(status, responseMessage.v),
          processed |-> TRUE, invoked |-> r.invoked]

\* InMemoryRegistry.add / update
RegistryAdd(id, key) ==
    /\ db' = [a \in DOMAIN db \cup {id} |-> IF a = id THEN Entry(id, key) ELSE db[a]]
    /\ last' = [op |-> "add", id |-> id, before |-> calls, out |-> Return(Undef)]
    /\ UNCHANGED <<capabilityHandlers, calls, executed, pending, issued>>

\* InMemoryRegistry.remove
RegistryRemove(id) ==
    /\ db' = [a \in DOMAIN db \ {id} |-> db[a]]
    /\ last' = [op |-> "remove", id |-> id, before |-> calls, out |-> Return(Undef)]
    /\ UNCHANGED <<capabilityHandlers, calls, executed, pending, issued>>

\* await agent.publicKey(id)
PublicKey(id) ==
    /\ last' = [op |-> "publicKey", id |-> id, before |-> calls,
                out |-> publicKey(db, Str(id))]
    /\ UNCHANGED <<capabilityHandlers, calls, executed, db, pending, issued>>

\* one POST /tasks request with body message
PostTasks(message) ==
    LET p == postTasks(db, capabilityHandlers, message) IN
    /\ p.invoked => calls < MaxCalls
    /\ calls' = IF p.invoked THEN calls + 1 ELSE calls
    /\ last' = [op |-> "post", msg |-> message, before |-> calls,
                processed |-> p.processed, out |-> p.res]
    /\ UNCHANGED <<capabilityHandlers, executed, db, pending, issued>>

NextServer ==
    \/ \E r \in Registrations : Capability(r[1], r[2])
    \/ \E k \in EntryKeys : RegistryAdd(AgentX, k)
    \/ RegistryRemove(AgentX)
    \/ \E id \in {AgentX, AgentW} : PublicKey(id)
    \/ \E m \in ServerMessages : PostTasks(m)

SpecServer == Init /\ [][NextServer]_vars

IsPost == last.op = "post"

\* the sender of the posted body has an entry with a non-empty key
SenderKeyFound ==
    LET from == Get(last.msg, "from")
    IN /\ from.t = "str"
       /\ from.s \in DOMAIN db
       /\ db[from.s].keys.publicKey # ""

\* the response body is a task_result or task_error envelope of this agent,
\* addressed to the sender of the request and signed with this agent's key
SignedResponse ==
    LET body == last.out.body
    IN /\ Get(body, "type") \in {Str("task_result"), Str("task_error")}
       /\ Get(body, "from") = Str(config.id)
       /\ Get(body, "to") = Get(last.msg, "from")
       /\ SigValid(body, config.keys.publicKey)

\* the response body is { error: text } and nothing else
UnsignedError ==
    /\ Keys(last.out.body) = {"error"}
    /\ Get(last.out.body, "error").t = "str"

\* C9 as stated: every POST /tasks is answered with a signed task_result or
\* task_error envelope, also when the sender's key is not found and when
\* processing fails unexpectedly
C9_AlwaysSignedResponse == IsPost => SignedResponse

\* C9 amended: when the sender's key is found and process returns a value,
\* the answer is a signed task_result with 200 or a signed task_error with
\* 500; when the key is not found or an exception is thrown, the answer is
\* an unsigned { error } body with 401 or 500
C9_SignedWhenProcessed ==
    IsPost =>
        IF /\ SenderKeyFound
           /\ process(capabilityHandlers, last.msg,
                      db[Get(last.msg, "from").s].keys.publicKey).out.k = "return"
        THEN /\ SignedResponse
             /\ \/ last.out.status = 200 /\ Get(last.out.body, "type") = Str("task_result")
                \/ last.out.status = 500 /\ Get(last.out.body, "type") = Str("task_error")
        ELSE /\ UnsignedError
             /\ last.out.status \in {401, 500}

\* a request that ran its handler and was answered with a signed task_result
C9_Witness ==
    /\ IsPost
    /\ SenderKeyFound
    /\ last.out.status = 200
    /\ SignedResponse
    /\ Get(Get(last.out.body, "data"), "result") = ParamsHi
    /\ calls = last.before + 1

\* C10: the public key of an agent that is not in the registry is absent,
\* not an error: publicKey(id) returns undefined, and a POST /tasks of an
\* unregistered sender is answered with 401 without calling process
C10_AbsentIsUnauthenticated ==
    /\ (last.op = "publicKey" /\ last.id \notin DOMAIN db) => last.out = Return(Undef)
    /\ (IsPost /\ Get(last.msg, "from") = Str(AgentW)) =>
            (last.out.status = 401 /\ ~last.processed)

(***************************************************************************)
(* Registration of capability handlers                                     *)
(***************************************************************************)
\* C11: capability(id, handler) with an id that is not among the configured
\* capability descriptors throws CONFIG_ERROR at registration and leaves the
\* handler map unchanged; no process call ever ends in CONFIG_ERROR
C11_ConfigErrorAtRegistration ==
    /\ [][(last'.op = "capability" /\ ~hasCapability(last'.id)) =>
            /\ last'.out = Throw("CONFIG_ERROR")
            /\ capabilityHandlers' = capabilityHandlers]_vars
    /\ [](IsProcess => /\ last.out # Throw("CONFIG_ERROR")
                       /\ ~ReturnedError("CONFIG_ERROR"))

\* a rejected registration after which the handlers registered before remain
C11_Witness ==
    /\ last.op = "capability"
    /\ last.id = "nope"
    /\ last.out = Throw("CONFIG_ERROR")
    /\ DOMAIN capabilityHandlers = {"echo"}

(***************************************************************************)
(* Agent identity: processMessage                                          *)
(***************************************************************************)
\* AgentIdentity.processTaskRequest
processTaskRequest(message) ==
    LET capability == Get(Get(message, "data"), "capability")
    IN IF capability.t = "str" /\ hasCapability(capability.s)
       THEN Return(Undef)
       ELSE Throw("CAPABILITY_NOT_FOUND")

\* AgentIdentity.processMessage
processMessage(message, peerPublicKey) ==
    LET valid == validate(message) IN
    IF valid.k = "throw" THEN valid
    ELSE IF Get(message, "to") # Str(config.id) THEN Throw("INVALID_MESSAGE_FORMAT")
    ELSE LET ok == verifyMessage(message, peerPublicKey) IN
         IF ok.k = "throw" THEN ok
         ELSE IF ~ok.v THEN Throw("INVALID_SIGNATURE")
         ELSE IF Get(message, "type") = Str("task_request") THEN processTaskRequest(message)
         ELSE Return(Undef)

\* identity.processMessage(message, publicKey)
ProcessMessage(message, peerPublicKey) ==
    /\ last' = [op |-> "processMessage", msg |-> message, key |-> peerPublicKey,
                before |-> calls, out |-> processMessage(message, peerPublicKey)]
    /\ UNCHANGED <<capabilityHandlers, calls, executed, db, pending, issued>>

\* an envelope as it arrives, before any signature is looked at
Envelope(from, to, type, data) ==
    Obj(<< <<"from", from>>, <<"to", to>>, <<"type", type>>, <<"data", data>> >>)

\* one entry of the capabilities of a capability_response
CapabilityEntry ==
    Obj(<< <<"id", Str("echo")>>, <<"input", ParamsHi>>, <<"output", ParamsHi>> >>)

\* for each message type, payloads with the required fields only
RequiredOnly(type) ==
    CASE type = "task_request" ->
            {Obj(<< <<"task_id", Str("t1")>>, <<"capability", Str("echo")>>,
                    <<"params", ParamsHi>> >>)}
      [] type = "task_response" ->
            {Obj(<< <<"task_id", Str("t1")>>, <<"status", Str(st)>> >>) :
                st \in {"accepted", "rejected"}}
      [] type = "task_update" ->
            {Obj(<< <<"task_id", Str("t1")>>, <<"status", Str("in_progress")>> >>)}
      [] type = "task_result" ->
            {Obj(<< <<"task_id", Str("t1")>>, <<"status", Str("completed")>>,
                    <<"result", ParamsHi>> >>)}
      [] type = "task_error" ->
            {Obj(<< <<"task_id", Str("t1")>>, <<"error", Str("PROCESSING_FAILED")>>,
                    <<"message", Str("boom")>>, <<"retry", Bool(b)>> >>) : b \in BOOLEAN}
      [] type = "capability_response" ->
            {Obj(<< <<"capabilities", Arr(<<CapabilityEntry>>)>> >>),
             Obj(<< <<"capabilities", Arr(<<CapabilityEntry, CapabilityEntry>>)>> >>)}
      [] OTHER -> {Obj(<<>>)}

\* the same payloads with a valid optional field added
WithOptional(type) ==
    CASE type = "task_request" ->
            {Put(d, "deadline", Str("2030-01-01T00:00:00Z")) : d \in RequiredOnly(type)}
      [] type = "task_response" ->
            {Put(d, "reason", Str("busy")) : d \in RequiredOnly(type)}
      [] type = "task_update" ->
            {Put(Put(d, "progress", Num(n)), "message", Str("working")) :
                d \in RequiredOnly(type), n \in {0, 50, 100}}
      [] type = "capability_query" ->
            {Obj(<< <<"capabilities", Arr(<<Str("echo"), Str("sum")>>)>> >>),
             Obj(<< <<"capabilities", Arr(<<>>)>> >>)}
      [] OTHER -> {}

\* the payloads of RequiredOnly with one required field taken away
OneMissing(type) ==
    ({Del(d, k) : d \in RequiredOnly(type), k \in {"task_id", "capability", "params",
        "status", "result", "error", "message", "retry", "capabilities"}}
    \cup (IF type = "capability_response"
          THEN {Obj(<< <<"capabilities", Arr(<<CapabilityEntry, Del(CapabilityEntry, k)>>)>> >>) :
                    k \in {"id", "input", "output"}}
               \cup {Obj(<< <<"capabilities", Arr(<<>>)>> >>)}
          ELSE {}))
    \ RequiredOnly(type)

\* task_request payloads whose fields have values of other kinds
OddTaskRequests ==
    LET d == CHOOSE x \in RequiredOnly("task_request") : TRUE
    IN {Put(d, "task_id", v) : v \in {Num(42), Str(""), Bool(TRUE), Null}}
       \cup {Put(d, "capability", v) : v \in {Num(7), Str(""), ParamsHi}}
       \cup {Put(Del(d, "params"), "params", v) :
                v \in {Str("hi"), Num(1), Arr(<<>>), Null, Obj(<<>>)}}

\* task_update payloads over the values of progress
ProgressValues ==
    {Num(n) : n \in {-1, 0, 1, 50, 99, 100, 101, 150}}
    \cup {Str("50"), NaN, Null, Bool(TRUE), ParamsHi}

OddTaskUpdates ==
    LET d == CHOOSE x \in RequiredOnly("task_update") : TRUE
    IN {Put(d, "progress", v) : v \in ProgressValues}

\* task_error payloads whose fields have values of other kinds
OddTaskErrors ==
    LET d == CHOOSE x \in RequiredOnly("task_error") : TRUE
    IN {Put(d, "retry", v) : v \in {Str("yes"), Str(""), Num(0), Num(1), Null, ParamsHi}}
       \cup {Put(d, "error", v) : v \in {Str(""), Num(0), Null}}
       \cup {Put(d, "message", v) : v \in {Str(""), Null}}
       \cup {Put(d, "task_id", v) : v \in {Str(""), Null}}

\* capability_response payloads whose capabilities hold entries of other kinds
OddCapabilityResponses ==
    {Obj(<< <<"capabilities", v>> >>) :
        v \in {Arr(<<Null>>), Arr(<<CapabilityEntry, Null>>), Arr(<<Num(1)>>),
               Arr(<<Del(CapabilityEntry, "id"), Null>>), Str("echo"), ParamsHi, Null}}

\* envelopes with from, to, type or data missing or of another form
OddEnvelopes ==
    LET m == Envelope(Str(AgentX), Str(AgentY), Str("task_request"),
                      CHOOSE x \in RequiredOnly("task_request") : TRUE)
        ids == {Str(NotAnId), Str(""), Str(IdPrefix), Str("hive:agent:x"), Num(42), Null}
    IN {Del(m, k) : k \in {"from", "to", "type", "data"}}
       \cup {Put(Del(m, "from"), "from", v) : v \in ids}
       \cup {Put(Del(m, "to"), "to", v) : v \in ids}
       \cup {Put(m, "type", v) : v \in {Str("task_cancel"), Num(1)}}
       \cup {Put(m, "data", v) : v \in {Str("x"), Num(0)}}
       \cup {Put(Put(Del(m, "from"), "from", Str(NotAnId)), "to", Num(42)), Undef}

\* the arguments of validate
ValidateInputs ==
    UNION {{Envelope(Str(AgentX), Str(AgentY), Str(type), d) :
                d \in RequiredOnly(type) \cup WithOptional(type) \cup OneMissing(type)} :
            type \in AgentMessageTypes}
    \cup {Envelope(Str(AgentX), Str(AgentY), Str("task_request"), d) : d \in OddTaskRequests}
    \cup {Envelope(Str(AgentX), Str(AgentY), Str("task_update"), d) : d \in OddTaskUpdates}
    \cup {Envelope(Str(AgentX), Str(AgentY), Str("task_error"), d) : d \in OddTaskErrors}
    \cup {Envelope(Str(AgentX), Str(AgentY), Str("capability_response"), d) :
                d \in OddCapabilityResponses}
    \cup OddEnvelopes

\* AgentMessage.validate(message)
Validate(message) ==
    /\ last' = [op |-> "validate", msg |-> message, before |-> calls,
                out |-> validate(message)]
    /\ UNCHANGED <<capabilityHandlers, calls, executed, db, pending, issued>>

NextIdentity ==
    \/ \E i \in ProcessInputs : ProcessMessage(i[1], i[2])
    \/ \E m \in ValidateInputs : Validate(m)

SpecIdentity == Init /\ [][NextIdentity]_vars

\* C12: processMessage checks structure, addressee and signature in this
\* order and raises a typed error for each: INVALID_MESSAGE_FORMAT for a
\* structurally invalid or misaddressed message (also when it is badly
\* signed as well), INVALID_SIGNATURE for a signature that does not verify,
\* whatever the reason
C12_TypedErrors ==
    last.op = "processMessage" =>
        IF validate(last.msg).k = "throw" \/ Get(last.msg, "to") # Str(config.id)
        THEN last.out = Throw("INVALID_MESSAGE_FORMAT")
        ELSE ~SigValid(last.msg, last.key) => last.out = Throw("INVALID_SIGNATURE")

(***************************************************************************)
(* Values returned by the task dispatcher                                  *)
(***************************************************************************)
\* the last process call passed the signature, type and handler checks
LastDispatched ==
    /\ IsProcess
    /\ Get(last.msg, "data") # Undef
    /\ SigValid(last.msg, last.key)
    /\ LastType = Str("task_request")
    /\ LastHasHandler

RequestTaskId ==
    LET t == Get(Get(last.msg, "data"), "task_id")
    IN IF t = Undef \/ t = Str("") THEN Str("unknown") ELSE t

ConcurrentInputs ==
    {<<RequestEchoX, "pkX">>,
     <<createTaskRequest(Str(AgentX), Str(AgentY), Str("echo"), ParamsYo, "skX",
                         Str("t2"), "uuid-1").v, "pkX">>,
     <<createTaskRequest(Str(AgentX), Str(AgentY), Str("sum"), ParamsHi, "skX",
                         Str("t3"), "uuid-1").v, "pkX">>,
     <<UpdateX, "pkX">>,
     <<RequestEchoX, "pkZ">>}

\* Agent.process up to the await: either the value it returns without
\* calling a handler, or the locals task_id, handler, params it holds
\* while the handler runs
processUntilAwait(handlers, message, senderPublicKey) ==
    LET data == Get(message, "data") IN
    IF data = Undef THEN [suspended |-> FALSE, out |-> Throw("TypeError")]
    ELSE
    LET task_id == IF Truthy(Get(data, "task_id")) THEN Get(data, "task_id") ELSE Str("unknown")
        ok == verifyMessage(message, senderPublicKey)
        capability == Get(data, "capability")
    IN IF ok.k = "throw" THEN [suspended |-> FALSE, out |-> ok]
       ELSE IF ~ok.v
       THEN [suspended |-> FALSE,
             out |-> Return(TaskError(task_id, "INVALID_SIGNATURE",
                        "Message signature verification failed"))]
       ELSE IF Get(message, "type") # Str("task_request")
       THEN [suspended |-> FALSE,
             out |-> Return(TaskError(task_id, "INVALID_MESSAGE_FORMAT",
                        "Invalid message type: " \o Template(Get(message, "type"))
                        \o ". Expected 'task_request'."))]
       ELSE IF ~(capability.t = "str" /\ capability.s \in DOMAIN handlers)
       THEN [suspended |-> FALSE,
             out |-> Return(TaskError(task_id, "CAPABILITY_NOT_FOUND",
                        "Capability '" \o Template(capability)
                        \o "' not found or no handler registered."))]
       ELSE [suspended |-> TRUE, task_id |-> task_id,
             handler |-> handlers[capability.s], params |-> Get(data, "params")]

\* Agent.process after the await: the value returned once the handler of
\* the suspended call c has settled
processAfterAwait(c) ==
    LET result == RunHandler(c.handler, c.params)
    IN IF result.k = "throw"
       THEN Return(TaskError(c.task_id, "PROCESSING_FAILED", result.e))
       ELSE Return(Put(Put(Put(Obj(<<>>), "task_id", c.task_id),
                       "status", Str("completed")), "result", result.v))

\* call i of process starts and runs until it returns or awaits its handler
ProcessStart(i, message, senderPublicKey) ==
    LET p == processUntilAwait(capabilityHandlers, message, senderPublicKey) IN
    /\ i \notin DOMAIN pending
    /\ IF p.suspended
       THEN /\ calls < MaxCalls
            /\ calls' = calls + 1
            /\ pending' = [j \in DOMAIN pending \cup {i} |->
                            IF j = i
                            THEN [msg |-> message, key |-> senderPublicKey,
                                  handlers |-> capabilityHandlers, task_id |-> p.task_id,
                                  handler |-> p.handler, params |-> p.params]
                            ELSE pending[j]]
            /\ last' = [op |-> "await", id |-> i, before |-> calls]
       ELSE /\ last' = [op |-> "settled", id |-> i, msg |-> message,
                         key |-> senderPublicKey, handlers |-> capabilityHandlers,
                         others |-> Cardinality(DOMAIN pending),
                         before |-> calls, out |-> p.out]
            /\ UNCHANGED <<calls, pending>>
    /\ UNCHANGED <<capabilityHandlers, executed, db, issued>>

\* a resumption that takes the task id from a field shared by the calls in
\* flight instead of the call's own local
ProcessResumeShared(i) ==
    /\ i \in DOMAIN pending
    /\ \E j \in DOMAIN pending :
        last' = [op |-> "settled", id |-> i, msg |-> pending[i].msg, key |-> pending[i].key,
                 handlers |-> pending[i].handlers,
                 others |-> Cardinality(DOMAIN pending) - 1, before |-> calls,
                 out |-> processAfterAwait([pending[i] EXCEPT !.task_id = pending[j].task_id])]
    /\ pending' = [j \in DOMAIN pending \ {i} |-> pending[j]]
    /\ UNCHANGED <<capabilityHandlers, calls, executed, db, issued>>

\* the handler of call i settles and the call returns
ProcessResume(i) ==
    /\ i \in DOMAIN pending
    /\ last' = [op |-> "settled", id |-> i, msg |-> pending[i].msg, key |-> pending[i].key,
                handlers |-> pending[i].handlers,
                others |-> Cardinality(DOMAIN pending) - 1, before |-> calls,
                out |-> processAfterAwait(pending[i])]
    /\ pending' = [j \in DOMAIN pending \ {i} |-> pending[j]]
    /\ UNCHANGED <<capabilityHandlers, calls, executed, db, issued>>

NextConcurrent ==
    \/ \E r \in Registrations : Capability(r[1], r[2])
    \/ \E i \in 1..MaxPending : \E c \in ConcurrentInputs : ProcessStart(i, c[1], c[2])
    \/ \E i \in 1..MaxPending : ProcessResume(i)

SpecConcurrent == Init /\ [][NextConcurrent]_vars

\* C15: concurrent process calls do not interfere: whatever calls are in
\* flight, each call returns the value it returns when run alone on the
\* agent as it was when the call started, and no step of process changes
\* the handler map or the registry
C15_NoInterference ==
    /\ [](last.op = "settled" =>
            last.out = process(last.handlers, last.msg, last.key).out)
    /\ [][last'.op \in {"await", "settled"} =>
            /\ capabilityHandlers' = capabilityHandlers
            /\ db' = db]_vars

\* a call that completed while another call was still in flight
C15_Witness ==
    /\ last.op = "settled"
    /\ last.others > 0
    /\ Get(last.out.v, "status") = Str("completed")
    /\ pending # <<>>
    /\ \E j \in DOMAIN pending : pending[j].task_id # Get(last.out.v, "task_id")

(***************************************************************************)
(* Canonical form and key order                                            *)
(***************************************************************************)
\* C16: signing and verification do not depend on the insertion order of
\* object keys: for a payload P and a P' with the same keys and values in
\* another order at any level, sign(P, sk) = sign(P', sk) and
\* verify(P', sign(P, sk), pk) is true, and the canonical bytes of one
\* payload are the same each time
C16_KeyOrderIndependent ==
    last.op = "reordered" =>
        /\ last.sigOther = last.sig
        /\ last.out = Return(TRUE)
        /\ stringify(last.other) = stringify(last.payload)
        /\ last.sig.m = stringify(last.payload)

\* an envelope whose nested members were inserted in another order
C16_Witness ==
    /\ last.op = "reordered"
    /\ last.other # last.payload
    /\ Get(last.other, "data") # Get(last.payload, "data")
    /\ Keys(Get(last.other, "data")) = {"task_id", "capability", "params"}
    /\ last.out = Return(TRUE)

(***************************************************************************)
(* Properties of the message validator                                     *)
(***************************************************************************)
IsValidate == last.op = "validate"
Rejected == last.out = Throw("INVALID_MESSAGE_FORMAT")
Accepted == last.out = Return(Undef)
NonEmptyString(v) == v.t = "str" /\ v.s # ""

\* v is an agent identifier hive:agentid:<token>
IsAgentId(v) ==
    /\ v.t = "str"
    /\ Len(v.s) > Len(IdPrefix)
    /\ SubSeq(v.s, 1, Len(IdPrefix)) = IdPrefix

\* the envelope has from, to, type and data, valid identifiers and a known type
EnvelopeOk(m) ==
    /\ IsAgentId(Get(m, "from"))
    /\ IsAgentId(Get(m, "to"))
    /\ Get(m, "type").t = "str" /\ Get(m, "type").s \in AgentMessageTypes
    /\ Get(m, "data").t = "obj"

\* C17: validate rejects with INVALID_MESSAGE_FORMAT every envelope that
\* lacks from, to, type or data and every envelope whose from or to is not
\* an agent identifier of the form hive:agentid:<token>
C17_EnvelopeChecked ==
    (/\ IsValidate
     /\ \/ \E k \in {"from", "to", "type", "data"} : Get(last.msg, k) = Undef
        \/ ~IsAgentId(Get(last.msg, "from"))
        \/ ~IsAgentId(Get(last.msg, "to")))
    => Rejected
\* the fields section 4.3 requires of the payload of each message type
Required(type) ==
    CASE type = "task_request" -> {"task_id", "capability", "params"}
      [] type = "task_response" -> {"task_id", "status"}
      [] type = "task_update" -> {"task_id", "status"}
      [] type = "task_result" -> {"task_id", "status", "result"}
      [] type = "task_error" -> {"task_id", "error", "message", "retry"}
      [] type = "capability_response" -> {"capabilities"}
      [] OTHER -> {}

\* capabilities is no array, is empty, or has an entry (an object) that
\* lacks id, input or output and no entry that is not an object
EntriesIncomplete(capabilities) ==
    \/ capabilities.t # "arr"
    \/ Len(capabilities.a) = 0
    \/ /\ \A i \in 1..Len(capabilities.a) : capabilities.a[i].t = "obj"
       /\ \E i \in 1..Len(capabilities.a) :
            \E k \in {"id", "input", "output"} : Get(capabilities.a[i], k) = Undef

\* the payload has every required field of its type with a valid value,
\* and its optional fields, if any, are valid
PayloadValid(type, data) ==
    CASE type = "task_request" ->
            /\ NonEmptyString(Get(data, "task_id"))
            /\ NonEmptyString(Get(data, "capability"))
            /\ Get(data, "params").t = "obj"
      [] type = "task_response" ->
            /\ NonEmptyString(Get(data, "task_id"))
            /\ Get(data, "status") \in {Str("accepted"), Str("rejected")}
      [] type = "task_update" ->
            /\ NonEmptyString(Get(data, "task_id"))
            /\ Get(data, "status") = Str("in_progress")
            /\ \/ Get(data, "progress") = Undef
               \/ /\ Get(data, "progress").t = "num"
                  /\ Get(data, "progress").n >= 0
                  /\ Get(data, "progress").n <= 100
      [] type = "task_result" ->
            /\ NonEmptyString(Get(data, "task_id"))
            /\ Get(data, "status") = Str("completed")
            /\ Get(data, "result").t = "obj"
      [] type = "task_error" ->
            /\ NonEmptyString(Get(data, "task_id"))
            /\ NonEmptyString(Get(data, "error"))
            /\ NonEmptyString(Get(data, "message"))
            /\ Get(data, "retry").t = "bool"
      [] type = "capability_query" ->
            \/ Get(data, "capabilities") = Undef
            \/ /\ Get(data, "capabilities").t = "arr"
               /\ \A i \in 1..Len(Get(data, "capabilities").a) :
                        Get(data, "capabilities").a[i].t = "str"
      [] type = "capability_response" ->
            /\ ~EntriesIncomplete(Get(data, "capabilities"))
            /\ \A i \in 1..Len(Get(data, "capabilities").a) :
                    /\ NonEmptyString(Get(Get(data, "capabilities").a[i], "id"))
                    /\ Get(Get(data, "capabilities").a[i], "input").t = "obj"
                    /\ Get(Get(data, "capabilities").a[i], "output").t = "obj"
      [] OTHER -> TRUE

\* C18: for each message type validate rejects with INVALID_MESSAGE_FORMAT
\* a payload from which one required field is missing, and accepts every
\* payload that has all required fields and only valid optional fields
C18_ValidatorComplete ==
    (IsValidate /\ EnvelopeOk(last.msg)) =>
        LET type == Get(last.msg, "type").s
            data == Get(last.msg, "data")
        IN /\ (\E k \in Required(type) : Get(data, k) = Undef) => Rejected
           /\ (type = "capability_response" /\ Get(data, "capabilities") # Undef
                    /\ EntriesIncomplete(Get(data, "capabilities"))) => Rejected
           /\ PayloadValid(type, data) => Accepted

\* a task_error whose retry is false is accepted
C18_Witness ==
    /\ IsValidate
    /\ EnvelopeOk(last.msg)
    /\ Get(last.msg, "type") = Str("task_error")
    /\ Get(Get(last.msg, "data"), "retry") = Bool(FALSE)
    /\ Accepted

\* C19: validate accepts a task_request only if task_id and capability are
\* non-empty strings and params is an object; a task_request whose task_id
\* or capability is not a string, or whose params is absent or not an
\* object, is rejected with INVALID_MESSAGE_FORMAT
C19_TaskRequestFields ==
    (IsValidate /\ EnvelopeOk(last.msg) /\ Get(last.msg, "type") = Str("task_request")) =>
        LET data == Get(last.msg, "data")
            good == /\ NonEmptyString(Get(data, "task_id"))
                    /\ NonEmptyString(Get(data, "capability"))
                    /\ Get(data, "params").t = "obj"
        IN /\ Accepted => good
           /\ ~good => Rejected

\* C20: validate accepts a task_update with task_id and status in_progress
\* exactly when progress is absent or a number p with 0 <= p <= 100, both
\* bounds included; otherwise it rejects with INVALID_MESSAGE_FORMAT
C20_ProgressRange ==
    (/\ IsValidate /\ EnvelopeOk(last.msg)
     /\ Get(last.msg, "type") = Str("task_update")
     /\ NonEmptyString(Get(Get(last.msg, "data"), "task_id"))
     /\ Get(Get(last.msg, "data"), "status") = Str("in_progress")) =>
        LET progress == Get(Get(last.msg, "data"), "progress")
            inRange == \/ progress = Undef
                       \/ progress.t = "num" /\ progress.n >= 0 /\ progress.n <= 100
        IN /\ inRange => Accepted
           /\ ~inRange => Rejected

\* C21: validate accepts a task_error only if task_id is present, error
\* and message are non-empty and retry is a boolean; retry = true and
\* retry = false are both accepted, and a task_error whose retry is missing
\* or is not a boolean is rejected with INVALID_MESSAGE_FORMAT
C21_TaskErrorFields ==
    (IsValidate /\ EnvelopeOk(last.msg) /\ Get(last.msg, "type") = Str("task_error")) =>
        LET data == Get(last.msg, "data")
            retry == Get(data, "retry")
        IN /\ Accepted => /\ Get(data, "task_id") # Undef
                          /\ Truthy(Get(data, "error"))
                          /\ Truthy(Get(data, "message"))
                          /\ retry.t = "bool"
           /\ (NonEmptyString(Get(data, "task_id")) /\ NonEmptyString(Get(data, "error"))
                    /\ NonEmptyString(Get(data, "message")) /\ retry.t = "bool") => Accepted
           /\ retry.t # "bool" => Rejected

\* C22: every rejection by validate is raised as INVALID_MESSAGE_FORMAT;
\* whatever its argument, validate never fails with any other kind of
\* error (a from that is not a string, a null entry in the capabilities of
\* a capability_response)
C22_OnlyInvalidMessageFormat ==
    IsValidate => (Accepted \/ Rejected)

(***************************************************************************)
(* The message factory of this agent's identity: AgentIdentity.create...   *)
(***************************************************************************)
\* AgentMessage.createTaskResponse
createTaskResponse(fromAgentId, toAgentId, taskId, status, privateKey, estimatedCompletion, reason) ==
    LET base == Put(Put(Obj(<<>>), "task_id", taskId), "status", status)
        withEta == IF Truthy(estimatedCompletion)
                   THEN Put(base, "estimated_completion", estimatedCompletion) ELSE base
        data == IF Truthy(reason) THEN Put(withEta, "reason", reason) ELSE withEta
    IN createMessage(fromAgentId, toAgentId, "task_response", data, privateKey)

\* AgentMessage.createCapabilityQuery
createCapabilityQuery(fromAgentId, toAgentId, privateKey, capabilities) ==
    LET data == IF Truthy(capabilities) THEN Put(Obj(<<>>), "capabilities", capabilities)
                ELSE Obj(<<>>)
    IN createMessage(fromAgentId, toAgentId, "capability_query", data, privateKey)

\* AgentMessage.createCapabilityResponse
createCapabilityResponse(fromAgentId, toAgentId, capabilities, privateKey, endpoint) ==
    LET base == Put(Obj(<<>>), "capabilities", capabilities)
        data == IF Truthy(endpoint) THEN Put(base, "endpoint", endpoint) ELSE base
    IN createMessage(fromAgentId, toAgentId, "capability_response", data, privateKey)

\* the version 4 UUIDs of the scenario
Uuids == {"uuid-" \o ToString(n) : n \in 1..MaxGenerated}

\* a generateTaskId that can return a value it has returned before
generateTaskIdRepeating(used) == Uuids

\* AgentSignature.generateTaskId: the values crypto.randomUUID() can return
\* after it has returned those of used; random UUIDs do not repeat
generateTaskId(used) == Uuids \ used

\* the recipients and task ids a caller passes to the factory
Recipients == {Str(AgentX), Str(AgentW)}
TaskIds == {Str("t1"), Str("t2")}

\* AgentIdentity.createTaskRequest(toAgentId, capability, params, taskId)
CreateTaskRequest(toAgentId, capability, params, taskId) ==
    IF Truthy(taskId)
    THEN /\ last' = [op |-> "createTaskRequest", to |-> toAgentId, taskId |-> taskId,
                      seen |-> issued, before |-> calls,
                      out |-> createTaskRequest(Str(config.id), toAgentId, capability, params,
                                                config.keys.privateKey, taskId, "")]
         /\ UNCHANGED <<capabilityHandlers, calls, executed, db, pending, issued>>
    ELSE \E generated \in generateTaskId(issued) :
         /\ issued' = issued \cup {generated}
         /\ last' = [op |-> "createTaskRequest", to |-> toAgentId, taskId |-> taskId,
                      seen |-> issued, before |-> calls,
                      out |-> createTaskRequest(Str(config.id), toAgentId, capability, params,
                                                config.keys.privateKey, taskId, generated)]
         /\ UNCHANGED <<capabilityHandlers, calls, executed, db, pending>>

\* AgentIdentity.createTaskResponse(toAgentId, taskId, status, estimatedCompletion, reason)
CreateTaskResponse(toAgentId, taskId, status, reason) ==
    /\ last' = [op |-> "createTaskResponse", to |-> toAgentId, taskId |-> taskId,
                seen |-> issued, before |-> calls,
                out |-> createTaskResponse(Str(config.id), toAgentId, taskId, status,
                                           config.keys.privateKey, Undef, reason)]
    /\ UNCHANGED <<capabilityHandlers, calls, executed, db, pending, issued>>

\* AgentIdentity.createTaskUpdate(toAgentId, taskId, progress)
CreateTaskUpdate(toAgentId, taskId, progress) ==
    /\ last' = [op |-> "createTaskUpdate", to |-> toAgentId, taskId |-> taskId,
                seen |-> issued, before |-> calls,
                out |-> createTaskUpdate(Str(config.id), toAgentId, taskId,
                                         config.keys.privateKey, progress)]
    /\ UNCHANGED <<capabilityHandlers, calls, executed, db, pending, issued>>

\* AgentIdentity.createTaskResult(toAgentId, taskId, result)
CreateTaskResult(toAgentId, taskId, result) ==
    /\ last' = [op |-> "createTaskResult", to |-> toAgentId, taskId |-> taskId,
                seen |-> issued, before |-> calls,
                out |-> createTaskResult(Str(config.id), toAgentId, taskId, result,
                                         config.keys.privateKey)]
    /\ UNCHANGED <<capabilityHandlers, calls, executed, db, pending, issued>>

\* AgentIdentity.createTaskError(toAgentId, taskId, error, message, retry)
CreateTaskError(toAgentId, taskId, error, retry) ==
    /\ last' = [op |-> "createTaskError", to |-> toAgentId, taskId |-> taskId,
                seen |-> issued, before |-> calls,
                out |-> createTaskError(Str(config.id), toAgentId, taskId, error,
                                        Str("boom"), retry, config.keys.privateKey)]
    /\ UNCHANGED <<capabilityHandlers, calls, executed, db, pending, issued>>

\* AgentIdentity.createCapabilityQuery(toAgentId, capabilities)
CreateCapabilityQuery(toAgentId, capabilities) ==
    /\ last' = [op |-> "createCapabilityQuery", to |-> toAgentId, taskId |-> Undef,
                seen |-> issued, before |-> calls,
                out |-> createCapabilityQuery(Str(config.id), toAgentId,
                                              config.keys.privateKey, capabilities)]
    /\ UNCHANGED <<capabilityHandlers, calls, executed, db, pending, issued>>

\* AgentIdentity.createCapabilityResponse(toAgentId, endpoint)
CreateCapabilityResponse(toAgentId, endpoint) ==
    /\ last' = [op |-> "createCapabilityResponse", to |-> toAgentId, taskId |-> Undef,
                seen |-> issued, before |-> calls,
                out |-> createCapabilityResponse(Str(config.id), toAgentId,
                            Arr(<<CapabilityEntry>>), config.keys.privateKey, endpoint)]
    /\ UNCHANGED <<capabilityHandlers, calls, executed, db, pending, issued>>

NextFactory ==
    \/ \E to \in Recipients, c \in {Str("echo"), Str("sum")}, p \in {ParamsHi, ParamsYo},
          tid \in TaskIds \cup {Undef, Str("")} : CreateTaskRequest(to, c, p, tid)
    \/ \E to \in Recipients, tid \in TaskIds, st \in {Str("accepted"), Str("rejected")},
          r \in {Undef, Str("busy")} : CreateTaskResponse(to, tid, st, r)
    \/ \E to \in Recipients, tid \in TaskIds, pr \in {Undef, Num(0), Num(50)} :
            CreateTaskUpdate(to, tid, pr)
    \/ \E to \in Recipients, tid \in TaskIds, r \in {ParamsHi, ParamsYo} :
            CreateTaskResult(to, tid, r)
    \/ \E to \in Recipients, tid \in TaskIds, b \in BOOLEAN :
            CreateTaskError(to, tid, Str("PROCESSING_FAILED"), Bool(b))
    \/ \E to \in Recipients, cs \in {Undef, Arr(<<Str("echo")>>)} :
            CreateCapabilityQuery(to, cs)
    \/ \E to \in Recipients, e \in {Undef, Str("http://localhost:11100")} :
            CreateCapabilityResponse(to, e)

SpecFactory == Init /\ [][NextFactory]_vars

IsFactory ==
    last.op \in {"createTaskRequest", "createTaskResponse", "createTaskUpdate",
                 "createTaskResult", "createTaskError", "createCapabilityQuery",
                 "createCapabilityResponse"}

\* a task id was supplied to createTaskRequest
Supplied == last.taskId \notin {Undef, Str("")}

Endpoint == Str("http://localhost:11100")

\* AgentConfig.info(): the whole configuration, both keys included
info ==
    Obj(<< <<"id", Str(config.id)>>, <<"name", Str("agent-y")>>, <<"version", Str("1.0.0")>>,
           <<"endpoint", Endpoint>>,
           <<"keys", Obj(<< <<"publicKey", Str(config.keys.publicKey)>>,
                            <<"privateKey", Str(config.keys.privateKey)>> >>)>>,
           <<"capabilities", Arr(<<CapabilityEntry>>)>> >>)

\* a registration that publishes the configuration as info() returns it
agentInfoWhole(cfg) == cfg

\* the entry Agent.register publishes: { ...info, keys: { publicKey } }
agentInfo(cfg) ==
    Put(Del(cfg, "keys"), "keys",
        Obj(<< <<"publicKey", Get(Get(cfg, "keys"), "publicKey")>> >>))

\* a registry entry with its endpoint
EntryAt(id, pk, endpoint) == [id |-> id, keys |-> [publicKey |-> pk], endpoint |-> endpoint]

\* the entries peers have in the active registry: the peer with its key, the
\* peer without endpoint, the peer under another agent's key
PeerEntries ==
    {EntryAt(AgentX, "pkX", Endpoint), EntryAt(AgentX, "pkX", Undef),
     EntryAt(AgentX, "pkZ", Endpoint)}

\* what got.post(...).json() yields for a request to the peer: a transport
\* failure or a non-2xx status, or the body of the response
Replies ==
    LET result == createTaskResult(Str(AgentX), Str(AgentY), Str("t1"), ParamsHi, "skX").v
    IN {Throw("RequestError"),
        Return(result),
        Return(createTaskResult(Str(AgentX), Str(AgentY), Str("t1"), ParamsHi, "skZ").v),
        Return(Put(result, "data", Put(Get(result, "data"), "result", ParamsYo))),
        Return(Put(result, "sig", Str("AAAA"))),
        Return(Del(result, "sig"))}

\* a sendTask that returns the data of the response without verifying it
sendTaskUnverified(d, toAgentId, capability, params, taskId, generated, reply) ==
    LET targetAgent == registryGet(d, toAgentId) IN
    IF targetAgent.k = "throw" THEN [sent |-> <<>>, out |-> targetAgent]
    ELSE IF ~Truthy(targetAgent.v.endpoint) THEN [sent |-> <<>>, out |-> Throw("CONFIG_ERROR")]
    ELSE
    LET taskRequest == createTaskRequest(Str(config.id), toAgentId, capability, params,
                                         config.keys.privateKey, taskId, generated)
    IN [sent |-> <<taskRequest.v>>,
        out |-> IF reply.k = "throw" THEN Throw("PROCESSING_FAILED")
                ELSE Return(Get(reply.v, "data"))]

\* Agent.sendTask: the bodies it sends and the value it returns or the
\* error it rejects with; reply is the outcome of the POST
sendTask(d, toAgentId, capability, params, taskId, generated, reply) ==
    LET targetAgent == registryGet(d, toAgentId) IN
    IF targetAgent.k = "throw" THEN [sent |-> <<>>, out |-> targetAgent]
    ELSE IF ~Truthy(targetAgent.v.endpoint) THEN [sent |-> <<>>, out |-> Throw("CONFIG_ERROR")]
    ELSE
    LET taskRequest == createTaskRequest(Str(config.id), toAgentId, capability, params,
                                         config.keys.privateKey, taskId, generated)
        ok == verifyMessage(reply.v, targetAgent.v.keys.publicKey)
    IN [sent |-> <<taskRequest.v>>,
        out |-> IF reply.k = "throw" THEN Throw("PROCESSING_FAILED")
                ELSE IF ok.k = "throw" THEN Throw("PROCESSING_FAILED")
                ELSE IF ~ok.v THEN Throw("PROCESSING_FAILED")   \* INVALID_SIGNATURE, rewrapped
                ELSE Return(Get(reply.v, "data"))]

\* registry.add(entry) by a peer
RegistryAddEntry(entry) ==
    /\ db' = [a \in DOMAIN db \cup {entry.id} |-> IF a = entry.id THEN entry ELSE db[a]]
    /\ last' = [op |-> "add", id |-> entry.id, before |-> calls, out |-> Return(Undef)]
    /\ UNCHANGED <<capabilityHandlers, calls, executed, pending, issued>>

\* await agent.sendTask(toAgentId, capability, params, taskId)
SendTask(toAgentId, capability, params, taskId, reply) ==
    LET targetAgent == registryGet(db, toAgentId)
        generates == /\ targetAgent.k = "return"
                     /\ Truthy(targetAgent.v.endpoint)
                     /\ ~Truthy(taskId)
    IN IF generates
       THEN \E generated \in generateTaskId(issued) :
            /\ issued' = issued \cup {generated}
            /\ last' = [op |-> "sendTask", to |-> toAgentId, taskId |-> taskId,
                         reply |-> reply, seen |-> issued, before |-> calls] @@
                        sendTask(db, toAgentId, capability, params, taskId, generated, reply)
            /\ UNCHANGED <<capabilityHandlers, calls, executed, db, pending>>
       ELSE /\ last' = [op |-> "sendTask", to |-> toAgentId, taskId |-> taskId,
                         reply |-> reply, seen |-> issued, before |-> calls] @@
                        sendTask(db, toAgentId, capability, params, taskId, "", reply)
            /\ UNCHANGED <<capabilityHandlers, calls, executed, db, pending, issued>>

NextClient ==
    \/ \E e \in PeerEntries : RegistryAddEntry(e)
    \/ RegistryRemove(AgentX)
    \/ \E to \in Recipients, p \in {ParamsHi, ParamsYo}, tid \in {Str("t1"), Undef},
          r \in Replies : SendTask(to, Str("echo"), p, tid, r)

SpecClient == Init /\ [][NextClient]_vars

IsSendTask == last.op = "sendTask"

\* the target of the last sendTask has an entry with an endpoint
TargetKnown ==
    /\ last.to.s \in DOMAIN db
    /\ Truthy(db[last.to.s].endpoint)

\* C25: sendTask returns the data of the response only if the signature of
\* the response envelope verifies under the public key of the target's entry
\* in the active registry; for an unknown target, a target without endpoint,
\* a transport failure or a response whose signature does not verify it
\* throws and returns no data
C25_ResponseVerified ==
    IsSendTask =>
        /\ last.out.k = "return" =>
                /\ TargetKnown
                /\ last.reply.k = "return"
                /\ SigValid(last.reply.v, db[last.to.s].keys.publicKey)
                /\ last.out.v = Get(last.reply.v, "data")
        /\ (\/ ~TargetKnown
            \/ last.reply.k = "throw"
            \/ ~SigValid(last.reply.v, db[last.to.s].keys.publicKey)) => last.out.k = "throw"

\* a response signed by another key than the registered one is refused,
\* after the request was sent
C25_Witness ==
    /\ IsSendTask
    /\ TargetKnown
    /\ last.sent # <<>>
    /\ last.reply.k = "return"
    /\ Get(last.reply.v, "sig").t = "sig"
    /\ ~SigValid(last.reply.v, db[last.to.s].keys.publicKey)
    /\ last.out.k = "throw"

(***************************************************************************)
(* What this agent puts on the network                                     *)
(***************************************************************************)
\* await agent.register(): the entry is handed to the active registry
Register ==
    LET entry == agentInfo(info) IN
    /\ db' = [a \in DOMAIN db \cup {config.id} |->
                IF a = config.id
                THEN EntryAt(config.id, Get(Get(entry, "keys"), "publicKey").s,
                             Get(entry, "endpoint"))
                ELSE db[a]]
    /\ last' = [op |-> "register", sent |-> <<entry>>, before |-> calls,
                out |-> Return(Undef)]
    /\ UNCHANGED <<capabilityHandlers, calls, executed, pending, issued>>

\* GET /status
GetStatus ==
    /\ last' = [op |-> "status", before |-> calls,
                out |-> Response(200, Obj(<< <<"agentId", Str(config.id)>>,
                                            <<"status", Str("ok")>>,
                                            <<"version", Get(info, "version")>> >>))]
    /\ UNCHANGED <<capabilityHandlers, calls, executed, db, pending, issued>>

\* GET /capabilities
GetCapabilities ==
    /\ last' = [op |-> "capabilities", before |-> calls,
                out |-> Response(200, Obj(<< <<"agentId", Str(config.id)>>,
                                            <<"capabilities", Get(info, "capabilities")>> >>))]
    /\ UNCHANGED <<capabilityHandlers, calls, executed, db, pending, issued>>

NextNetwork ==
    \/ \E r \in {<<"echo", "echo">>, <<"echo", "fail">>} : Capability(r[1], r[2])
    \/ \E e \in PeerEntries : RegistryAddEntry(e)
    \/ Register
    \/ \E to \in Recipients, tid \in {Str("t1"), Undef}, r \in Replies :
            SendTask(to, Str("echo"), ParamsHi, tid, r)
    \/ GetStatus
    \/ GetCapabilities
    \/ \E m \in {RequestEchoX, UpdateX, Del(RequestEchoX, "sig"), RequestEchoW} : PostTasks(m)

SpecNetwork == Init /\ [][NextNetwork]_vars

\* the text s occurs as a string somewhere in the JSON value v; a signature
\* is not the key that made it
RECURSIVE Mentions(_, _)
Mentions(v, s) ==
    CASE v.t = "str" -> v.s = s
      [] v.t = "obj" -> \E i \in 1..Len(v.f) : Mentions(v.f[i][2], s)
      [] v.t = "arr" -> \E i \in 1..Len(v.a) : Mentions(v.a[i], s)
      [] OTHER -> FALSE

\* the bodies the last operation sent: requests of register and sendTask,
\* responses of the server routes
Wire ==
    CASE last.op \in {"register", "sendTask"} -> last.sent
      [] last.op \in {"post", "status", "capabilities"} -> <<last.out.body>>
      [] OTHER -> <<>>

\* C24: the private key never crosses the network: the entry published by
\* register holds the public key and not the private key, and no request
\* of sendTask and no response of the agent server holds the private key
C24_PrivateKeyStaysHome ==
    /\ \A i \in DOMAIN Wire : ~Mentions(Wire[i], config.keys.privateKey)
    /\ last.op = "register" =>
            /\ Keys(Get(last.sent[1], "keys")) = {"publicKey"}
            /\ Get(Get(last.sent[1], "keys"), "publicKey") = Str(config.keys.publicKey)

\* the agent has registered itself and then sends a task request
C24_Witness ==
    /\ config.id \in DOMAIN db
    /\ IsSendTask
    /\ last.sent # <<>>
    /\ Mentions(info, config.keys.privateKey)

(***************************************************************************)
(* Construction of the configuration: new AgentConfig(config)              *)
(***************************************************************************)
\* AgentConfig.DEFAULT_CONFIG
DEFAULT_CONFIG ==
    Obj(<< <<"endpoint", Endpoint>>, <<"logLevel", Str("info")>>, <<"capabilities", Arr(<<>>)>>,
           <<"id", Str("")>>, <<"name", Str("")>>, <<"description", Str("")>>,
           <<"version", Str("")>>, <<"host", Str("localhost")>>, <<"port", Num(11100)>>,
           <<"keys", Obj(<< <<"publicKey", Str("")>>, <<"privateKey", Str("")>> >>)>>,
           <<"env", Str(".env")>> >>)

\* { ...a, ...b }: a property of b replaces that of a, also when its value
\* is undefined
Spread(a, b) ==
    Obj([i \in 1..Len(a.f) |->
            IF a.f[i][1] \in Keys(b)
            THEN (SelectSeq(b.f, LAMBDA q : q[1] = a.f[i][1]))[1]
            ELSE a.f[i]]
        \o SelectSeq(b.f, LAMBDA q : q[1] \notin Keys(a)))

\* v?.length === 0
LengthIsZero(v) == (v.t = "str" /\ v.s = "") \/ (v.t = "arr" /\ Len(v.a) = 0)

\* a validateConfig that checks only that an id is given
validateConfigIdPresent(cfg) ==
    IF LengthIsZero(Get(Spread(DEFAULT_CONFIG, cfg), "id")) THEN Throw("CONFIG_ERROR")
    ELSE Return(Spread(DEFAULT_CONFIG, cfg))

\* AgentConfig.validateConfig; the constructor returns its result
validateConfig(cfg) ==
    LET mergedConfig == Spread(DEFAULT_CONFIG, cfg)
        id == Get(mergedConfig, "id")
        capabilities == Get(mergedConfig, "capabilities")
        keys == Get(mergedConfig, "keys")
        entryFails(c) ==
            IF c \in {Undef, Null} THEN Throw("TypeError")
            ELSE IF \/ LengthIsZero(Get(c, "id"))
                    \/ LengthIsZero(Get(c, "input")) \/ TypeOf(Get(c, "input")) # "object"
                    \/ LengthIsZero(Get(c, "output")) \/ TypeOf(Get(c, "output")) # "object"
            THEN Throw("CONFIG_ERROR")
            ELSE Return(Undef)
    IN IF LengthIsZero(id) THEN Throw("CONFIG_ERROR")
       ELSE IF id \in {Undef, Null} THEN Throw("CONFIG_ERROR")
       ELSE IF ~IsStr(id) THEN Throw("TypeError")       \* id.startsWith is not a function
       ELSE IF ~startsWithPrefix(id) THEN Throw("CONFIG_ERROR")
       ELSE IF \E k \in {"name", "description", "version"} : LengthIsZero(Get(mergedConfig, k))
       THEN Throw("CONFIG_ERROR")
       ELSE IF ~IsArray(capabilities) \/ LengthIsZero(capabilities) THEN Throw("CONFIG_ERROR")
       ELSE IF keys \in {Undef, Null} THEN Throw("TypeError")
       ELSE IF LengthIsZero(Get(keys, "publicKey")) \/ LengthIsZero(Get(keys, "privateKey"))
       THEN Throw("CONFIG_ERROR")
       ELSE LET bad == {i \in 1..Len(capabilities.a) : entryFails(capabilities.a[i]).k = "throw"}
            IN IF bad = {} THEN Return(mergedConfig)
               ELSE entryFails(capabilities.a[CHOOSE i \in bad : \A j \in bad : i <= j])

\* the configuration objects an application passes to the constructor
ConfigInputs ==
    LET ids == {<<>>} \cup {<< <<"id", v>> >> :
                    v \in {Str(AgentY), Str(NotAnId), Str(""), Str("hive:agent:y"),
                           Str("HIVE:AGENTID:Y"), Undef, Null, Num(42)}}
        caps == {<<>>} \cup {<< <<"capabilities", v>> >> :
                    v \in {Arr(<<CapabilityEntry>>), Arr(<<>>), Null, Str("echo"),
                           Arr(<<Del(CapabilityEntry, "input")>>)}}
        names == {<<>>, << <<"name", Str("agent-y")>>, <<"description", Str("an agent")>>,
                          <<"version", Str("1.0.0")>> >>}
        keys == {<<>>, << <<"keys", Get(info, "keys")>> >>}
    IN {Obj(i \o n \o c \o k) : i \in ids, n \in names, c \in caps, k \in keys}

\* new AgentConfig(config), the first statement of new Agent(config)
NewAgentConfig(cfg) ==
    /\ last' = [op |-> "config", cfg |-> cfg, before |-> calls, out |-> validateConfig(cfg)]
    /\ UNCHANGED <<capabilityHandlers, calls, executed, db, pending, issued>>

NextConfig == \E cfg \in ConfigInputs : NewAgentConfig(cfg)

SpecConfig == Init /\ [][NextConfig]_vars

IsConfig == last.op = "config"

\* the id given does not start with hive:agentid:, or the capabilities
\* given are missing, no array, or empty
Malformed(cfg) ==
    \/ ~(Get(cfg, "id").t = "str" /\ startsWithPrefix(Get(cfg, "id")))
    \/ ~(Get(cfg, "capabilities").t = "arr" /\ Len(Get(cfg, "capabilities").a) > 0)

C27_ExtraFieldIgnored ==
    (/\ last.op = "extended"
     /\ verifySignature(last.orig, last.key) = Return(TRUE)) => last.out = Return(TRUE)

(***************************************************************************)
(* Handlers and configured descriptors                                     *)
(***************************************************************************)
\* C28: after any sequence of capability() calls, successful or failing,
\* every id in the handler map is the id of a capability descriptor of the
\* configuration, and process returns status completed only for a
\* capability listed in the configuration
C28_HandlersWithinConfig ==
    /\ DOMAIN capabilityHandlers \subseteq config.capabilities
    /\ (IsProcess /\ ReturnedCompleted) =>
            /\ LastCapability.t = "str"
            /\ LastCapability.s \in config.capabilities

\* a task is completed while a handler is registered for every descriptor
C28_Witness ==
    /\ IsProcess
    /\ ReturnedCompleted
    /\ DOMAIN capabilityHandlers = config.capabilities

\* C29: process invokes a handler only for an envelope addressed to this
\* agent: a validly signed task_request whose to is the id of another agent
\* is not executed
C29_OnlyOwnAddressee ==
    (IsProcess /\ calls # last.before) => Get(last.msg, "to") = Str(config.id)

(***************************************************************************)
(* The in-memory registry of agent cards, with its name check              *)
(***************************************************************************)
\* the agent ids and names of the cards of the scenario
CardIds == {"id-a", "id-b"}
CardNames == {"alice", "bob"}

\* InMemoryRegistry.add(agent): id is the id of the card, "" when it has none
CardAdd(id, name) ==
    IF \E a \in DOMAIN db : db[a].name = name
    THEN /\ last' = [op |-> "cardAdd", id |-> id, name |-> name, before |-> calls,
                      out |-> Throw("Error")]
         /\ UNCHANGED <<capabilityHandlers, calls, executed, db, pending, issued>>
    ELSE IF id # ""
    THEN /\ db' = [a \in DOMAIN db \cup {id} |->
                    IF a = id THEN [id |-> id, name |-> name] ELSE db[a]]
         /\ last' = [op |-> "cardAdd", id |-> id, name |-> name, before |-> calls,
                      out |-> Return(Str(id))]
         /\ UNCHANGED <<capabilityHandlers, calls, executed, pending, issued>>
    ELSE \E generated \in generateTaskId(issued) :
         /\ issued' = issued \cup {generated}
         /\ db' = [a \in DOMAIN db \cup {generated} |->
                    IF a = generated THEN [id |-> generated, name |-> name] ELSE db[a]]
         /\ last' = [op |-> "cardAdd", id |-> id, name |-> name, before |-> calls,
                      out |-> Return(Str(generated))]
         /\ UNCHANGED <<capabilityHandlers, calls, executed, pending>>

\* InMemoryRegistry.update(agentId, agentUpdate): update is the name of
\* agentUpdate, "" when it has none
CardUpdate(agentId, update) ==
    /\ IF agentId \notin DOMAIN db
       THEN /\ last' = [op |-> "cardUpdate", id |-> agentId, name |-> update,
                         before |-> calls, out |-> Throw("Error")]
            /\ UNCHANGED db
       ELSE /\ db' = [db EXCEPT ![agentId] =
                        [id |-> agentId, name |-> IF update = "" THEN @.name ELSE update]]
            /\ last' = [op |-> "cardUpdate", id |-> agentId, name |-> update,
                         before |-> calls, out |-> Return(Str(agentId))]
    /\ UNCHANGED <<capabilityHandlers, calls, executed, pending, issued>>

\* InMemoryRegistry.delete(agentId)
CardDelete(agentId) ==
    /\ db' = [a \in DOMAIN db \ {agentId} |-> db[a]]
    /\ last' = [op |-> "cardDelete", id |-> agentId, name |-> "", before |-> calls,
                out |-> Return(Undef)]
    /\ UNCHANGED <<capabilityHandlers, calls, executed, pending, issued>>

\* InMemoryRegistry.clear()
CardClear ==
    /\ db' = <<>>
    /\ last' = [op |-> "cardClear", id |-> "", name |-> "", before |-> calls,
                out |-> Return(Undef)]
    /\ UNCHANGED <<capabilityHandlers, calls, executed, pending, issued>>

NextRegistry ==
    \/ \E id \in CardIds \cup {""}, n \in CardNames \cup {"carol"} : CardAdd(id, n)
    \/ \E id \in CardIds \cup Uuids, n \in CardNames \cup {""} : CardUpdate(id, n)
    \/ \E id \in CardIds \cup Uuids : CardDelete(id)
    \/ CardClear

SpecRegistry == Init /\ [][NextRegistry]_vars

\* C30: in the in-memory registry, after any sequence of add, update,
\* delete and clear, no two stored agents have the same name
C30_UniqueNames ==
    \A a, b \in DOMAIN db : a # b => db[a].name # db[b].name

====
